---- MODULE Spec2Model ----
(***************************************************************************)
(* Model of the filter engine of paths-filter (class Filter): a rules      *)
(* document is parsed into rule groups at construction, and match(files)   *)
(* maps every group to the files of the batch that belong to it; and of    *)
(* the action around it (run): reading the inputs, detecting the changed   *)
(* files, constructing the Filter and exporting the results as outputs.    *)
(*                                                                         *)
(* A path is the sequence of its segments ("src/a.ts" is <<"src","a.ts">>),*)
(* a glob is a sequence of tokens (a literal segment, "*" or "**"), and a  *)
(* pattern string is a glob with or without a leading "!".                 *)
(***************************************************************************)
EXTENDS Naturals, Sequences, FiniteSets, TLC

VARIABLES
  rules,                 \* Filter.rules: the Map, as a sequence of [key, rules] in insertion order
  globalIgnorePatterns,  \* Filter.globalIgnorePatterns
  filterConfig,          \* Filter.filterConfig (defaults merged in)
  phase,                 \* "constructed" until the first match call, then "matched"
  files,                 \* the argument of the latest match call
  results,               \* what the latest match call returned: a sequence of [key, files]
  repeated,              \* history: the latest call had the same argument as the call before it
  input,                 \* run: the inputs of the action and the event that triggered it
  error,                 \* the error thrown so far (NoError when none)
  outputs,               \* the core.setOutput calls so far, as a sequence of [name, value]
  written,               \* the files exportResults wrote to disk
  gitCalls               \* the git commands and REST calls of change detection, in order

vars == <<rules, globalIgnorePatterns, filterConfig, phase, files, results, repeated,
          input, error, outputs, written, gitCalls>>

----------------------------------------------------------------------------
(* Bounds *)

MaxFiles == 2    \* longest file list handed to match
MaxRules == 2    \* most items in the rule specification of a group

----------------------------------------------------------------------------
(* Sequence helpers: Array.prototype.flat / some / every (filter is SelectSeq) *)

RECURSIVE Flat(_)
Flat(ss) == IF ss = <<>> THEN <<>> ELSE Head(ss) \o Flat(Tail(ss))

Some(s, P(_)) == \E i \in 1..Len(s) : P(s[i])
Every(s, P(_)) == \A i \in 1..Len(s) : P(s[i])

SeqsUpTo(S, n) == UNION {[1..k -> S] : k \in 0..n}

----------------------------------------------------------------------------
(* ChangeStatus, File *)

Added == "added"
Copied == "copied"
Deleted == "deleted"
Modified == "modified"
Renamed == "renamed"
Unmerged == "unmerged"
ChangeStatus == {Added, Copied, Deleted, Modified, Renamed, Unmerged}

NoPath == <<>>          \* an absent (undefined) or empty path: falsy in `if (file.to)`

SrcA == <<"src", "a.ts">>
LegacyA == <<"legacy", "a.ts">>
Paths == {SrcA, LegacyA}

File(filename, status, from, to) ==
  [filename |-> filename, status |-> status, from |-> from, to |-> to, previous_filename |-> NoPath]

\* Files as the change providers build them: from = filename and no `to` unless
\* the file was renamed or copied; then filename = to = destination, from = origin.
PlainFiles == {File(LegacyA, Modified, LegacyA, NoPath), File(SrcA, Added, SrcA, NoPath)}
MovedFiles == {File(SrcA, s, LegacyA, SrcA) : s \in {Renamed, Copied}}
Files == PlainFiles \cup MovedFiles
FileLists == SeqsUpTo(Files, MaxFiles)

----------------------------------------------------------------------------
(* picomatch: the glob matcher *)

GlobAll == <<"**">>
GlobSrc == <<"src", "**">>
GlobLegacy == <<"legacy", "**">>
Globs == {GlobAll, GlobSrc, GlobLegacy}

\* A pattern string: the glob text, with a leading "!" when bang holds.
Pattern(bang, glob) == [bang |-> bang, glob |-> glob]
startsWithBang(p) == p.bang
slice1(p) == IF p.bang THEN Pattern(FALSE, p.glob) ELSE p   \* only applied when p starts with "!"

\* The extension of a path segment ("" when it has none).
Extension(seg) ==
  CASE seg = "some-docs.md" -> ".md"
    [] seg = "some-pic.jpeg" -> ".jpeg"
    [] seg = "some-class.ts" -> ".ts"
    [] seg = "a.ts" -> ".ts"
    [] OTHER -> ""

\* One token of a glob against one path segment: "*", "*.ext" or a literal.
SegMatch(tok, seg) ==
  \/ tok = "*"
  \/ tok = seg
  \/ tok = "*.md" /\ Extension(seg) = ".md"
  \/ tok = "*.jpeg" /\ Extension(seg) = ".jpeg"

RECURSIVE GlobMatch(_, _)
GlobMatch(glob, path) ==
  IF glob = <<>> THEN path = <<>>
  ELSE IF Head(glob) = "**"
    THEN GlobMatch(Tail(glob), path) \/ (path # <<>> /\ GlobMatch(glob, Tail(path)))
    ELSE /\ path # <<>>
         /\ SegMatch(Head(glob), Head(path))
         /\ GlobMatch(Tail(glob), Tail(path))

\* picomatch(pat, MatchOptions)(str); picomatch itself reads a leading "!" as negation.
picomatch(pat, str) == IF pat.bang THEN ~GlobMatch(pat.glob, str) ELSE GlobMatch(pat.glob, str)

----------------------------------------------------------------------------
(* The rules document, as the tree jsyaml.load returns *)

Str(bang, glob) == [t |-> "str", bang |-> bang, glob |-> glob]
Arr(items) == [t |-> "arr", items |-> items]
Obj(entries) == [t |-> "obj", entries |-> entries]     \* entries: sequence of [key, value]
Entry(key, value) == [key |-> key, value |-> value]

\* An object key of a rule item is the sequence of the texts between its "|".
PathsIgnoreKey == <<"paths-ignore">>
trimLower(x) ==
  CASE x = " Modified " -> "modified"
    [] x = "Added" -> "added"
    [] x = " " -> ""
    [] OTHER -> x

HasKey(item, key) == \E i \in 1..Len(item.entries) : item.entries[i].key = key
Get(item, key) == item.entries[CHOOSE i \in 1..Len(item.entries) : item.entries[i].key = key].value

StrPattern(s) == Pattern(s.bang, s.glob)

RuleItem(hasStatus, status, pat, negate) ==
  [hasStatus |-> hasStatus, status |-> status, isMatch |-> pat, negate |-> negate]

parseStatusKey(key) ==
  LET trimmed == [i \in 1..Len(key) |-> trimLower(key[i])]
      kept == SelectSeq(trimmed, LAMBDA x : x # "")
  IN  {kept[i] : i \in 1..Len(kept)}

RECURSIVE parseFilterItemYaml(_)
\* A paths-ignore pattern negated only when it starts with "!".
parseFilterItemYaml_IgnoreByBang(item) ==
  IF item.t = "arr" THEN
    Flat([i \in 1..Len(item.items) |-> parseFilterItemYaml(item.items[i])])
  ELSE IF item.t = "str" THEN
    LET p == StrPattern(item)
        negated == startsWithBang(p)
        pattern == IF negated THEN slice1(p) ELSE p
    IN  <<RuleItem(FALSE, {}, pattern, negated)>>
  ELSE IF HasKey(item, PathsIgnoreKey) THEN
    LET v == Get(item, PathsIgnoreKey)
        patterns == IF v.t = "arr" THEN v.items ELSE <<v>>
    IN  [i \in 1..Len(patterns) |->
          LET p == StrPattern(patterns[i])
              negated == startsWithBang(p)
              pat == IF negated THEN slice1(p) ELSE p
          IN  RuleItem(FALSE, {}, pat, negated)]
  ELSE
    Flat([e \in 1..Len(item.entries) |->
      LET key == item.entries[e].key
          v == item.entries[e].value
          patterns == IF v.t = "arr" THEN v.items ELSE <<v>>
      IN  [i \in 1..Len(patterns) |->
            LET p == StrPattern(patterns[i])
                negated == startsWithBang(p)
                pat == IF negated THEN slice1(p) ELSE p
            IN  RuleItem(TRUE, parseStatusKey(key), pat, negated)]])

parseFilterItemYaml(item) ==
  IF item.t = "arr" THEN
    Flat([i \in 1..Len(item.items) |-> parseFilterItemYaml(item.items[i])])
  ELSE IF item.t = "str" THEN
    LET p == StrPattern(item)
        negated == startsWithBang(p)
        pattern == IF negated THEN slice1(p) ELSE p
    IN  <<RuleItem(FALSE, {}, pattern, negated)>>
  ELSE IF HasKey(item, PathsIgnoreKey) THEN
    LET v == Get(item, PathsIgnoreKey)
        patterns == IF v.t = "arr" THEN v.items ELSE <<v>>
    IN  [i \in 1..Len(patterns) |->
          LET p == StrPattern(patterns[i])
              negated == startsWithBang(p)
              pat == IF negated THEN slice1(p) ELSE p
          IN  RuleItem(FALSE, {}, pat, TRUE)]
  ELSE
    Flat([e \in 1..Len(item.entries) |->
      LET key == item.entries[e].key
          v == item.entries[e].value
          patterns == IF v.t = "arr" THEN v.items ELSE <<v>>
      IN  [i \in 1..Len(patterns) |->
            LET p == StrPattern(patterns[i])
                negated == startsWithBang(p)
                pat == IF negated THEN slice1(p) ELSE p
            IN  RuleItem(TRUE, parseStatusKey(key), pat, negated)]])

----------------------------------------------------------------------------
(* FilterConfig and the constructor *)

EVERY == "every"
SOME == "some"
PredicateQuantifier == {EVERY, SOME}

NoFile == ""            \* globalIgnore absent (undefined or ''): falsy
FilterConfig(q, ignore, strict) ==
  [predicateQuantifier |-> q, globalIgnore |-> ignore, strictExcludes |-> strict]
DEFAULT_FILTER_CONFIG == FilterConfig(SOME, NoFile, FALSE)

\* The global-ignore files on disk, as their lines.
Line(kind, bang, glob) == [kind |-> kind, bang |-> bang, glob |-> glob]
BlankLine == Line("blank", FALSE, <<>>)
CommentLine == Line("comment", FALSE, <<>>)
PatternLine(bang, glob) == Line("pattern", bang, glob)
IgnoreFiles == {"global-ignore.txt"}
\* The same file without its "!" lines, and with more of them.
IgnoreVariants == {"global-ignore-plain.txt", "global-ignore-more.txt"}
readFileSync(path) ==
  CASE path = "global-ignore-plain.txt" -> <<CommentLine, PatternLine(FALSE, GlobSrc), BlankLine>>
    [] path = "global-ignore-more.txt" ->
         <<PatternLine(TRUE, GlobLegacy), CommentLine, PatternLine(FALSE, GlobSrc), BlankLine,
           PatternLine(TRUE, GlobSrc), PatternLine(TRUE, GlobAll)>>
    [] OTHER -> <<CommentLine, PatternLine(FALSE, GlobSrc), BlankLine, PatternLine(TRUE, GlobSrc)>>

IgnorePattern(pat, negated) == [matcher |-> pat, negated |-> negated]

loadGlobalIgnore(config) ==
  IF config.globalIgnore # NoFile THEN
    LET globalIgnoreContent == readFileSync(config.globalIgnore)
        globalIgnores == SelectSeq(globalIgnoreContent, LAMBDA line : line.kind = "pattern")
    IN  [i \in 1..Len(globalIgnores) |->
          LET pattern == Pattern(globalIgnores[i].bang, globalIgnores[i].glob)
              negated == startsWithBang(pattern)
              pat == IF negated THEN slice1(pattern) ELSE pattern
          IN  IgnorePattern(pat, negated)]
  ELSE <<>>

\* Construction failures: what jsyaml.load returns besides strings, arrays and
\* mappings, and the error the constructor throws.

Num == [t |-> "num"]
Null == [t |-> "null"]
Malformed == [t |-> "malformed"]      \* a text jsyaml.load cannot parse

typeof(node) ==
  CASE node.t = "str" -> "string"
    [] node.t = "num" -> "number"
    [] OTHER -> "object"               \* arrays, mappings and null
isArray(node) == node.t = "arr"

NoError == ""
InvalidFormat == "Invalid filter YAML format"      \* throwInvalidFormatError
TypeError == "TypeError"
YAMLException == "YAMLException"
ENOENT == "ENOENT"

FirstError(errs) ==
  LET thrown == SelectSeq(errs, LAMBDA x : x # NoError)
  IN  IF thrown = <<>> THEN NoError ELSE Head(thrown)

\* patterns.map((p) => p.startsWith('!') ...): p.startsWith is only there for a string.
patternsThrow(v) ==
  LET patterns == IF isArray(v) THEN v.items ELSE <<v>>
  IN  IF \E i \in 1..Len(patterns) : typeof(patterns[i]) # "string" THEN TypeError ELSE NoError

\* The error parseFilterItemYaml(item) throws, NoError when it returns.
RECURSIVE parseFilterItemYamlThrows(_)
parseFilterItemYamlThrows(item) ==
  IF isArray(item) THEN
    FirstError([i \in 1..Len(item.items) |-> parseFilterItemYamlThrows(item.items[i])])
  ELSE IF typeof(item) = "string" THEN NoError
  ELSE IF typeof(item) = "object" /\ item # Null THEN
    IF HasKey(item, PathsIgnoreKey) THEN patternsThrow(Get(item, PathsIgnoreKey))
    ELSE FirstError([e \in 1..Len(item.entries) |->
           LET pattern == item.entries[e].value
           IN  IF typeof(pattern) # "string" /\ ~isArray(pattern) THEN InvalidFormat
               ELSE patternsThrow(pattern)])
  ELSE InvalidFormat

\* Object.entries(parsed): of an array, its indices as keys.
ObjectEntries(parsed) ==
  IF isArray(parsed)
    THEN [i \in 1..Len(parsed.items) |-> Entry(ToString(i - 1), parsed.items[i])]
    ELSE parsed.entries

MissingFile == "missing.txt"
existsSync(path) == path \in IgnoreFiles \cup IgnoreVariants

\* The error new Filter(yaml, config) throws, NoError when it returns.
constructorThrows(yaml, config) ==
  IF yaml = Malformed THEN YAMLException
  ELSE IF typeof(yaml) # "object" \/ yaml = Null THEN InvalidFormat
  ELSE IF config.globalIgnore # NoFile /\ ~existsSync(config.globalIgnore) THEN ENOENT
  ELSE LET entries == ObjectEntries(yaml)
       IN  FirstError([i \in 1..Len(entries) |-> parseFilterItemYamlThrows(entries[i].value)])

parseRules(parsed) ==
  LET entries == ObjectEntries(parsed)
  IN  [i \in 1..Len(entries) |->
        [key |-> entries[i].key, rules |-> parseFilterItemYaml(entries[i].value)]]

----------------------------------------------------------------------------
(* Filter.match *)

\* Only the destination paths, whatever the rule targets.
getFilePathVariants_DestinationOnly(file, rule) ==
  {file.filename} \cup (IF file.to # NoPath THEN {file.to} ELSE {})

\* Every path of the file, whatever the rule targets.
getFilePathVariants_AllPaths(file, rule) ==
  {p \in {file.filename, file.to, file.from, file.previous_filename} : p # NoPath}

\* The source paths included for every rule that targets `renamed`, negated or not.
getFilePathVariants_NegatedSeesOrigin(file, rule) ==
  LET targetsRenamedStatus == rule.hasStatus /\ Renamed \in rule.status
      shouldIncludeSourcePaths ==
        \/ targetsRenamedStatus
        \/ (~targetsRenamedStatus /\ file.status # Renamed /\ file.status # Copied)
  IN  {file.filename}
        \cup (IF file.to # NoPath THEN {file.to} ELSE {})
        \cup (IF shouldIncludeSourcePaths /\ file.from # NoPath THEN {file.from} ELSE {})
        \cup (IF shouldIncludeSourcePaths /\ file.previous_filename # NoPath
                THEN {file.previous_filename} ELSE {})

getFilePathVariants(file, rule) ==
  LET targetsRenamedStatus == rule.hasStatus /\ Renamed \in rule.status
      shouldIncludeSourcePaths ==
        \/ (~rule.negate /\ targetsRenamedStatus)
        \/ (~targetsRenamedStatus /\ file.status # Renamed /\ file.status # Copied)
  IN  {file.filename}
        \cup (IF file.to # NoPath THEN {file.to} ELSE {})
        \cup (IF shouldIncludeSourcePaths /\ file.from # NoPath THEN {file.from} ELSE {})
        \cup (IF shouldIncludeSourcePaths /\ file.previous_filename # NoPath
                THEN {file.previous_filename} ELSE {})

\* The status constraint of the rule left unchecked.
aPredicate_AnyStatus(file, rule) ==
  \E variant \in getFilePathVariants(file, rule) : picomatch(rule.isMatch, variant)

aPredicate(file, rule) ==
  LET statusMatch == ~rule.hasStatus \/ file.status \in rule.status
  IN  IF ~statusMatch THEN FALSE
      ELSE \E variant \in getFilePathVariants(file, rule) : picomatch(rule.isMatch, variant)

\* Negated patterns as ordinary predicates combined by the quantifier (no precedence).
isMatch_NegationAsPredicate(file, rs, config) ==
  LET holds(r) == IF r.negate THEN ~aPredicate(file, r) ELSE aPredicate(file, r)
  IN  IF config.predicateQuantifier = EVERY THEN Every(rs, holds) ELSE Some(rs, holds)

\* The negative rules combined by the configured quantifier too.
isMatch_NegativesByQuantifier(file, rs, config) ==
  LET positives == SelectSeq(rs, LAMBDA r : ~r.negate)
      negatives == SelectSeq(rs, LAMBDA r : r.negate)
      positiveMatch ==
        IF Len(positives) = 0 THEN TRUE
        ELSE IF config.predicateQuantifier = EVERY
          THEN Every(positives, LAMBDA r : aPredicate(file, r))
          ELSE Some(positives, LAMBDA r : aPredicate(file, r))
      negativeMatch ==
        IF config.predicateQuantifier = EVERY
          THEN Len(negatives) > 0 /\ Every(negatives, LAMBDA r : aPredicate(file, r))
          ELSE Some(negatives, LAMBDA r : aPredicate(file, r))
  IN  positiveMatch /\ ~negativeMatch

\* `every` read as `some`.
isMatch_EveryAsSome(file, rs, config) ==
  LET positives == SelectSeq(rs, LAMBDA r : ~r.negate)
      negatives == SelectSeq(rs, LAMBDA r : r.negate)
      positiveMatch ==
        IF Len(positives) = 0 THEN TRUE ELSE Some(positives, LAMBDA r : aPredicate(file, r))
      negativeMatch == Some(negatives, LAMBDA r : aPredicate(file, r))
  IN  positiveMatch /\ ~negativeMatch

\* No special case for a group without positive rules.
isMatch_NoEmptyCase(file, rs, config) ==
  LET positives == SelectSeq(rs, LAMBDA r : ~r.negate)
      negatives == SelectSeq(rs, LAMBDA r : r.negate)
      positiveMatch ==
        IF config.predicateQuantifier = EVERY
          THEN Every(positives, LAMBDA r : aPredicate(file, r))
          ELSE Some(positives, LAMBDA r : aPredicate(file, r))
      negativeMatch == Some(negatives, LAMBDA r : aPredicate(file, r))
  IN  positiveMatch /\ ~negativeMatch

\* Negative rules taken into account under `every` only.
isMatch_NegativesOnlyUnderEvery(file, rs, config) ==
  LET positives == SelectSeq(rs, LAMBDA r : ~r.negate)
      negatives == SelectSeq(rs, LAMBDA r : r.negate)
      positiveMatch ==
        IF Len(positives) = 0 THEN TRUE
        ELSE IF config.predicateQuantifier = EVERY
          THEN Every(positives, LAMBDA r : aPredicate(file, r))
          ELSE Some(positives, LAMBDA r : aPredicate(file, r))
      negativeMatch ==
        config.predicateQuantifier = EVERY /\ Some(negatives, LAMBDA r : aPredicate(file, r))
  IN  positiveMatch /\ ~negativeMatch

isMatch(file, rs, config) ==
  LET positives == SelectSeq(rs, LAMBDA r : ~r.negate)
      negatives == SelectSeq(rs, LAMBDA r : r.negate)
      positiveMatch ==
        IF Len(positives) = 0 THEN TRUE
        ELSE IF config.predicateQuantifier = EVERY
          THEN Every(positives, LAMBDA r : aPredicate(file, r))
          ELSE Some(positives, LAMBDA r : aPredicate(file, r))
      negativeMatch == Some(negatives, LAMBDA r : aPredicate(file, r))
  IN  positiveMatch /\ ~negativeMatch

\* A negated ignore entry rescuing the files it matches.
globalIgnoreFilter_Rescue(fs, ignores) ==
  SelectSeq(fs, LAMBDA file :
    \/ ~Some(ignores, LAMBDA ignore : picomatch(ignore.matcher, file.filename) /\ ~ignore.negated)
    \/ Some(ignores, LAMBDA ignore : picomatch(ignore.matcher, file.filename) /\ ignore.negated))

\* Every ignore entry dropping the files it matches, negated or not.
globalIgnoreFilter_NegatedDrops(fs, ignores) ==
  SelectSeq(fs, LAMBDA file :
    ~Some(ignores, LAMBDA ignore : picomatch(ignore.matcher, file.filename)))

globalIgnoreFilter(fs, ignores) ==
  SelectSeq(fs, LAMBDA file :
    ~Some(ignores, LAMBDA ignore : picomatch(ignore.matcher, file.filename) /\ ~ignore.negated))

\* Blanking only a batch in which every file matches an exclude pattern.
hasExcludedFile_EveryFile(filteredFiles, rs) ==
  LET allNegativePatterns ==
        SelectSeq(Flat([i \in 1..Len(rs) |-> rs[i].rules]), LAMBDA rule : rule.negate)
  IN  /\ Len(filteredFiles) > 0
      /\ Every(filteredFiles, LAMBDA file :
            Some(allNegativePatterns, LAMBDA negPattern : picomatch(negPattern.isMatch, file.filename)))

\* The check asking whether a negative rule fires on a file: status and path variants.
hasExcludedFile_RuleFires(filteredFiles, rs) ==
  LET allNegativePatterns ==
        SelectSeq(Flat([i \in 1..Len(rs) |-> rs[i].rules]), LAMBDA rule : rule.negate)
  IN  Some(filteredFiles, LAMBDA file :
        Some(allNegativePatterns, LAMBDA negPattern : aPredicate(file, negPattern)))

hasExcludedFile(filteredFiles, rs) ==
  LET allNegativePatterns ==
        SelectSeq(Flat([i \in 1..Len(rs) |-> rs[i].rules]), LAMBDA rule : rule.negate)
  IN  Some(filteredFiles, LAMBDA file :
        Some(allNegativePatterns, LAMBDA negPattern : picomatch(negPattern.isMatch, file.filename)))

\* A file listed by the first group that accepts it only.
match_FirstGroupOnly(fs, rs, ignores, config) ==
  LET afterIgnore == globalIgnoreFilter(fs, ignores)
      filteredFiles ==
        IF config.strictExcludes /\ hasExcludedFile(afterIgnore, rs) THEN <<>> ELSE afterIgnore
  IN  [i \in 1..Len(rs) |->
        [key |-> rs[i].key,
         files |-> SelectSeq(filteredFiles, LAMBDA file :
                     /\ isMatch(file, rs[i].rules, config)
                     /\ \A j \in 1..(i - 1) : ~isMatch(file, rs[j].rules, config))]]

\* The matching files of a group collected last file first.
match_LastFirst(fs, rs, ignores, config) ==
  LET afterIgnore == globalIgnoreFilter(fs, ignores)
      filteredFiles ==
        IF config.strictExcludes /\ hasExcludedFile(afterIgnore, rs) THEN <<>> ELSE afterIgnore
      reversed == [k \in 1..Len(filteredFiles) |-> filteredFiles[Len(filteredFiles) + 1 - k]]
  IN  [i \in 1..Len(rs) |->
        [key |-> rs[i].key,
         files |-> SelectSeq(reversed, LAMBDA file : isMatch(file, rs[i].rules, config))]]

\* The strict-excludes check run whether or not the configuration enables it.
match_StrictAlways(fs, rs, ignores, config) ==
  LET afterIgnore == globalIgnoreFilter(fs, ignores)
      filteredFiles == IF hasExcludedFile(afterIgnore, rs) THEN <<>> ELSE afterIgnore
  IN  [i \in 1..Len(rs) |->
        [key |-> rs[i].key,
         files |-> SelectSeq(filteredFiles, LAMBDA file : isMatch(file, rs[i].rules, config))]]

\* The strict-excludes check run over the whole batch, before the global ignores.
match_StrictBeforeIgnore(fs, rs, ignores, config) ==
  LET afterIgnore == globalIgnoreFilter(fs, ignores)
      filteredFiles ==
        IF config.strictExcludes /\ hasExcludedFile(fs, rs) THEN <<>> ELSE afterIgnore
  IN  [i \in 1..Len(rs) |->
        [key |-> rs[i].key,
         files |-> SelectSeq(filteredFiles, LAMBDA file : isMatch(file, rs[i].rules, config))]]

match(fs, rs, ignores, config) ==
  LET afterIgnore == globalIgnoreFilter(fs, ignores)
      filteredFiles ==
        IF config.strictExcludes /\ hasExcludedFile(afterIgnore, rs) THEN <<>> ELSE afterIgnore
  IN  [i \in 1..Len(rs) |->
        [key |-> rs[i].key,
         files |-> SelectSeq(filteredFiles, LAMBDA file : isMatch(file, rs[i].rules, config))]]

----------------------------------------------------------------------------
(* The documents and configurations a Filter is constructed from *)

KeyRenamed == <<"renamed">>
KeyAddedModified == <<"Added", " Modified ">>       \* the key "Added| Modified "
Items ==
  { Str(FALSE, GlobAll), Str(FALSE, GlobLegacy),
    Obj(<<Entry(KeyRenamed, Str(FALSE, GlobLegacy))>>),
    Obj(<<Entry(KeyRenamed, Str(TRUE, GlobLegacy))>>),
    Obj(<<Entry(KeyAddedModified, Str(FALSE, GlobAll))>>),
    Obj(<<Entry(PathsIgnoreKey, Str(FALSE, GlobSrc))>>),
    Obj(<<Entry(PathsIgnoreKey, Str(TRUE, GlobSrc))>>) }
GroupSpecs == {Arr(s) : s \in SeqsUpTo(Items, MaxRules)}
OtherSpec == Str(FALSE, GlobAll)        \* a single inline rule
Yamls == {Obj(<<Entry("backend", a), Entry("other", OtherSpec)>>) : a \in GroupSpecs}

NoConfig == [given |-> FALSE]
ConfigArgs ==
  {NoConfig} \cup
  {FilterConfig(q, g, s) : q \in PredicateQuantifier, g \in {NoFile} \cup IgnoreFiles, s \in BOOLEAN}

mergeConfig(arg) == IF arg = NoConfig THEN DEFAULT_FILTER_CONFIG ELSE arg

NoInput == [given |-> FALSE]   \* a Filter constructed directly, as the tests do

----------------------------------------------------------------------------
(* The state machine: a constructed Filter, on which match is called *)

Init ==
  \E yaml \in Yamls, arg \in ConfigArgs :
    /\ filterConfig = mergeConfig(arg)
    /\ globalIgnorePatterns = loadGlobalIgnore(mergeConfig(arg))
    /\ rules = parseRules(yaml)
    /\ phase = "constructed"
    /\ files = <<>>
    /\ results = <<>>
    /\ repeated = FALSE
    /\ input = NoInput
    /\ error = NoError
    /\ outputs = <<>>
    /\ written = {}
    /\ gitCalls = <<>>

\* The lists of the groups kept in the instance and appended to by every call.
Match_Accumulating(fs) ==
  /\ results' =
       LET fresh == match(fs, rules, globalIgnorePatterns, filterConfig)
       IN  IF phase = "constructed" THEN fresh
           ELSE [g \in 1..Len(fresh) |->
                  [key |-> fresh[g].key, files |-> results[g].files \o fresh[g].files]]
  /\ files' = fs
  /\ phase' = "matched"
  /\ repeated' = (phase = "matched" /\ fs = files)
  /\ UNCHANGED <<rules, globalIgnorePatterns, filterConfig, input, error, outputs, written, gitCalls>>

Match(fs) ==
  /\ results' = match(fs, rules, globalIgnorePatterns, filterConfig)
  /\ files' = fs
  /\ phase' = "matched"
  /\ repeated' = (phase = "matched" /\ fs = files)
  /\ UNCHANGED <<rules, globalIgnorePatterns, filterConfig, input, error, outputs, written, gitCalls>>

\* One run of the action: the Filter is constructed and match is called once.
RunMatch == phase = "constructed" /\ \E fs \in FileLists : Match(fs)

Next == RunMatch

Spec == Init /\ [][Next]_vars

\* A Filter instance on which match is called again and again, as the tests do;
\* its first group has at most one rule.
MatchAgain == \E fs \in FileLists : Match(fs)

NextRepeat == MatchAgain

InitRepeat == Init /\ Len(rules[1].rules) <= 1

SpecRepeat == InitRepeat /\ [][NextRepeat]_vars

\* Filters of negative rules: a first group made of a catch-all rule, a rule
\* of `renamed: '!legacy/**'` and the two spellings of `paths-ignore: src/**`,
\* next to the group `other`; every configuration, one match.
ExcludeItems ==
  { Str(FALSE, GlobAll),
    Obj(<<Entry(KeyRenamed, Str(TRUE, GlobLegacy))>>),
    Obj(<<Entry(PathsIgnoreKey, Str(FALSE, GlobSrc))>>),
    Obj(<<Entry(PathsIgnoreKey, Str(TRUE, GlobSrc))>>) }
ExcludeYamls ==
  {Obj(<<Entry("backend", Arr(s)), Entry("other", OtherSpec)>>) : s \in SeqsUpTo(ExcludeItems, MaxRules)}

InitExcludes ==
  \E yaml \in ExcludeYamls, arg \in ConfigArgs :
    /\ filterConfig = mergeConfig(arg)
    /\ globalIgnorePatterns = loadGlobalIgnore(mergeConfig(arg))
    /\ rules = parseRules(yaml)
    /\ phase = "constructed"
    /\ files = <<>>
    /\ results = <<>>
    /\ repeated = FALSE
    /\ input = NoInput
    /\ error = NoError
    /\ outputs = <<>>
    /\ written = {}
    /\ gitCalls = <<>>

NextExcludes == RunMatch

SpecExcludes == InitExcludes /\ [][NextExcludes]_vars

----------------------------------------------------------------------------
(* The group of the README's predicate-quantifier example, and its files *)

GlobPkg == <<"pkg", "a", "b", "c", "**">>
GlobJpeg == <<"**", "*.jpeg">>
GlobMd == <<"**", "*.md">>
ReadmeYaml ==
  Obj(<<Entry("backend", Arr(<<Str(FALSE, GlobPkg), Str(TRUE, GlobJpeg), Str(TRUE, GlobMd)>>))>>)

PkgDir == <<"pkg", "a", "b", "c">>
OtherPkgDir == <<"pkg", "x", "y", "z">>
modified(path) == File(path, Modified, path, NoPath)
ReadmeFiles ==
  {modified(Append(PkgDir, n)) : n \in {"some-class.ts", "some-docs.md", "some-pic.jpeg"}}
    \cup {modified(Append(OtherPkgDir, "some-docs.md"))}
ReadmeFileLists == SeqsUpTo(ReadmeFiles, MaxFiles)

InitReadme ==
  \E arg \in ConfigArgs :
    /\ filterConfig = mergeConfig(arg)
    /\ globalIgnorePatterns = loadGlobalIgnore(mergeConfig(arg))
    /\ rules = parseRules(ReadmeYaml)
    /\ phase = "constructed"
    /\ files = <<>>
    /\ results = <<>>
    /\ repeated = FALSE
    /\ input = NoInput
    /\ error = NoError
    /\ outputs = <<>>
    /\ written = {}
    /\ gitCalls = <<>>

RunMatchReadme == phase = "constructed" /\ \E fs \in ReadmeFileLists : Match(fs)

NextReadme == RunMatchReadme

SpecReadme == InitReadme /\ [][NextReadme]_vars

----------------------------------------------------------------------------
(* Change detection: getChangedFiles and the git commands behind it *)

NULL_SHA == "0000000000000000000000000000000000000000"
HEAD == "HEAD"
BaseSha == "1111111111111111111111111111111111111111"     \* pull_request.base.sha
BeforeSha == "2222222222222222222222222222222222222222"   \* the commit before the push
HeadSha == "3333333333333333333333333333333333333333"     \* pull_request.head.sha
isGitSha(ref) == ref \in {NULL_SHA, BaseSha, BeforeSha, HeadSha}
getShortName(ref) ==
  CASE ref = "refs/heads/feature" -> "feature"
    [] ref = "refs/heads/main" -> "main"
    [] OTHER -> ref

\* The repository of the run. Commit 0 is the root (an empty tree), 1 is
\* `main` (the base of the pull request), 2 and 3 are the commits of `feature`
\* (3 is checked out), 5 is the tag v2.0.0 on top of 3, 6 is `develop`,
\* branched off 1; 4 is the work tree, with its uncommitted changes.
WorkTree == 4
CommitOf(ref) ==
  CASE ref = "develop" -> 6
    [] ref \in {"main", BaseSha, "v1.0.0"} -> 1
    [] ref = BeforeSha -> 2
    [] ref = "v2.0.0" -> 5
    [] OTHER -> 3                   \* feature, HEAD, HeadSha
LocalRefs == {"feature", HEAD, HeadSha, "v2.0.0"}
RemoteRefs == {"main", "develop", BaseSha, BeforeSha, "v1.0.0"}
Parent(commit) ==
  CASE commit = 6 -> 1
    [] commit = 5 -> 3
    [] commit = 0 -> 0
    [] OTHER -> commit - 1
RECURSIVE Ancestors(_)
Ancestors(commit) == {commit} \cup (IF commit = 0 THEN {} ELSE Ancestors(Parent(commit)))
\* git merge-base: the best common ancestor.
MergeBaseOf(a, b) ==
  LET common == Ancestors(a) \cap Ancestors(b)
  IN  CHOOSE c \in common : \A d \in common : d \in Ancestors(c)

\* Version is the content of a path at a commit, 0 when the path is absent:
\* src/a.ts starts as a copy of legacy/a.ts, which feature then modifies and
\* develop renames to src/a.ts. Mode is "file" except that the tag turned
\* src/a.ts into a symbolic link and that legacy/a.ts is in conflict in the
\* work tree.
RepoPaths == <<LegacyA, SrcA>>
Version(commit, path) ==
  IF path = LegacyA
    THEN (IF commit \in {0, 6} THEN 0 ELSE IF commit < 3 THEN 1 ELSE 2)
    ELSE (IF commit < 2 THEN 0 ELSE IF commit = WorkTree THEN 2 ELSE 1)
Mode(commit, path) ==
  IF commit = 5 /\ path = SrcA THEN "link"
  ELSE IF commit = WorkTree /\ path = LegacyA THEN "unmerged"
  ELSE "file"

\* The paths as the strings git prints and the API lists.
PathText(path) == IF path = LegacyA THEN "legacy/a.ts" ELSE IF path = SrcA THEN "src/a.ts" ELSE ""
TextPath(text) ==
  IF text = "legacy/a.ts" THEN LegacyA ELSE IF text = "src/a.ts" THEN SrcA ELSE NoPath

\* What `git diff --name-status --find-copies-harder -M a..b` reports: per path
\* a status letter, for renames and copies with the similarity and the origin.
DiffEntry(code, score, first, second) ==
  [code |-> code, score |-> score, first |-> first, second |-> second]
Origins(a, b, path) ==
  {s \in {RepoPaths[i] : i \in 1..Len(RepoPaths)} :
     /\ Version(a, s) # 0
     /\ Version(a, s) = Version(b, path)
     /\ Mode(a, s) = Mode(b, path)}
nameStatus(a, b) ==
  LET paths == {RepoPaths[i] : i \in 1..Len(RepoPaths)}
      renamedAway(p) ==
        \E q \in paths : Version(a, q) = 0 /\ Version(b, q) # 0 /\ p \in Origins(a, b, q)
      entry(p) ==
        LET va == Version(a, p)
            vb == Version(b, p)
        IN  IF vb = 0 THEN
              (IF va = 0 \/ renamedAway(p) THEN <<>> ELSE <<DiffEntry("D", "", p, NoPath)>>)
            ELSE IF va = 0 THEN
              (IF Origins(a, b, p) = {} THEN <<DiffEntry("A", "", p, NoPath)>>
               ELSE LET s == CHOOSE s \in Origins(a, b, p) : TRUE
                    IN  IF Version(b, s) = 0 THEN <<DiffEntry("R", "100", s, p)>>
                        ELSE <<DiffEntry("C", "100", s, p)>>)
            ELSE IF Mode(b, p) = "unmerged" THEN <<DiffEntry("U", "", p, NoPath)>>
            ELSE IF Mode(a, p) # Mode(b, p) THEN <<DiffEntry("T", "", p, NoPath)>>
            ELSE IF va # vb THEN <<DiffEntry("M", "", p, NoPath)>>
            ELSE <<>>
  IN  Flat([i \in 1..Len(RepoPaths) |-> entry(RepoPaths[i])])

\* The output of the command with -z: the NUL-terminated strings, in order.
gitDiffOutput(a, b) ==
  LET entries == nameStatus(a, b)
  IN  Flat([i \in 1..Len(entries) |->
        <<entries[i].code \o entries[i].score, PathText(entries[i].first)>>
          \o (IF entries[i].second # NoPath THEN <<PathText(entries[i].second)>> ELSE <<>>)])

\* statusToken.charAt(0) of the strings the output is made of.
charAt0(text) ==
  CASE text \in {"R100", "R"} -> "R"
    [] text \in {"C100", "C"} -> "C"
    [] text = "legacy/a.ts" -> "l"
    [] text = "src/a.ts" -> "s"
    [] OTHER -> text                \* one letter, or the empty string

UnknownStatus == "Unknown change status"
NoStatus == ""                      \* statusMap[code] undefined
statusMap(code) ==
  CASE code = "A" -> Added
    [] code = "C" -> Copied
    [] code = "D" -> Deleted
    [] code = "M" -> Modified
    [] code = "R" -> Renamed
    [] code = "U" -> Unmerged
    [] OTHER -> NoStatus

\* The status of a code, or the error thrown for a code that has none.
getChangeStatus(code) ==
  IF statusMap(code) = NoStatus
    THEN [status |-> NoStatus, error |-> UnknownStatus]
    ELSE [status |-> statusMap(code), error |-> NoError]

\* parseNullTerminated: the string that starts at index, "" past the end.
parseNullTerminated(output, index) == IF index <= Len(output) THEN output[index] ELSE ""

\* parseGitDiffOutput from index on. The strings of a -z output hold no blank
\* and no tab, so no path is ever inline in the status token.
RECURSIVE parseGitDiffOutputFrom(_, _)
parseGitDiffOutputFrom(output, index) ==
  IF index > Len(output) THEN [files |-> <<>>, error |-> NoError]
  ELSE
    LET rawStatusToken == parseNullTerminated(output, index)
        statusCode == charAt0(rawStatusToken)
        firstPath == parseNullTerminated(output, index + 1)
        status == getChangeStatus(statusCode).status
    IN  IF rawStatusToken = "" THEN [files |-> <<>>, error |-> NoError]
        ELSE IF firstPath = "" THEN parseGitDiffOutputFrom(output, index + 2)
        ELSE IF getChangeStatus(statusCode).error # NoError
          THEN [files |-> <<>>, error |-> getChangeStatus(statusCode).error]
        ELSE IF status = Copied \/ status = Renamed THEN
          LET secondPath == parseNullTerminated(output, index + 2)
              destination == IF secondPath # "" THEN secondPath ELSE firstPath
              rest == parseGitDiffOutputFrom(output, index + 3)
          IN  [rest EXCEPT !.files =
                 <<File(TextPath(destination), status, TextPath(firstPath), TextPath(destination))>> \o @]
        ELSE
          LET rest == parseGitDiffOutputFrom(output, index + 2)
          IN  [rest EXCEPT !.files =
                 <<File(TextPath(firstPath), status, TextPath(firstPath), NoPath)>> \o @]

\* The parser with the origin of a rename or a copy as the filename of its File.
parseGitDiffOutput_OriginAsFilename(output) ==
  LET parsed == parseGitDiffOutputFrom(output, 1)
  IN  IF parsed.error # NoError THEN [files |-> <<>>, error |-> parsed.error]
      ELSE [parsed EXCEPT !.files =
              [i \in 1..Len(parsed.files) |-> [parsed.files[i] EXCEPT !.filename = parsed.files[i].from]]]

\* A thrown error discards the files parsed before it.
parseGitDiffOutput(output) ==
  LET parsed == parseGitDiffOutputFrom(output, 1)
  IN  IF parsed.error # NoError THEN [files |-> <<>>, error |-> parsed.error] ELSE parsed

\* The Files of `git diff a..b`, or the error of the parser.
gitDiff(a, b) == parseGitDiffOutput(gitDiffOutput(a, b))

\* One git command: fetches carry --unshallow or a depth, the others their refs.
Git(cmd, a, b) == [cmd |-> cmd, unshallow |-> FALSE, depth |-> 0, a |-> a, b |-> b]
FetchDepth(depth, ref) == [cmd |-> "fetch", unshallow |-> FALSE, depth |-> depth, a |-> ref, b |-> ""]
FetchUnshallow == [cmd |-> "fetch", unshallow |-> TRUE, depth |-> 0, a |-> "", b |-> ""]

Detected(fs, calls) == [files |-> fs, calls |-> calls, error |-> NoError]
Thrown(err, calls) == [files |-> <<>>, calls |-> calls, error |-> err]
\* The files parseGitDiffOutput returns, or the error it throws.
Parsed(diff, calls) ==
  IF diff.error # NoError THEN Thrown(diff.error, calls) ELSE Detected(diff.files, calls)

CouldNotDetermine == "Could not determine what is the ref"
TokenRequired == "'token' input parameter is required if action is triggered by 'pull_request_target' event"
HeadRequired == "This action requires 'head' input to be configured"
BaseRequired == "This action requires 'base' input to be configured"
NoMergeBase == "No merge base found"

\* ensureRefAvailable: the fetches it runs, and whether the ref is there afterwards.
ensureRefAvailable(name) ==
  IF name \in LocalRefs THEN [calls |-> <<>>, found |-> TRUE]
  ELSE IF name \in RemoteRefs THEN [calls |-> <<FetchDepth(1, name)>>, found |-> TRUE]
  ELSE [calls |-> <<FetchDepth(1, name), FetchDepth(1, name)>>, found |-> FALSE]

getChanges(base, head) ==
  LET baseRef == ensureRefAvailable(base)
      headRef == ensureRefAvailable(head)
  IN  IF ~baseRef.found THEN Thrown(CouldNotDetermine, baseRef.calls)
      ELSE IF ~headRef.found THEN Thrown(CouldNotDetermine, baseRef.calls \o headRef.calls)
      ELSE Parsed(gitDiff(CommitOf(base), CommitOf(head)),
                  baseRef.calls \o headRef.calls \o <<Git("diff", base, head)>>)

getChangesOnHead == Parsed(gitDiff(CommitOf(HEAD), WorkTree), <<Git("diff", HEAD, "")>>)

\* One `git fetch --unshallow`, then the merge base and the diff from it; the
\* depth parameter is not used.
getChangesSinceMergeBase(base, head, initialFetchDepth) ==
  IF base \notin LocalRefs \cup RemoteRefs \/ head \notin LocalRefs \cup RemoteRefs
    THEN Thrown(NoMergeBase, <<FetchUnshallow, Git("merge-base", base, head)>>)
    ELSE LET mergeBase == MergeBaseOf(CommitOf(base), CommitOf(head))
         IN  Parsed(gitDiff(mergeBase, CommitOf(head)),
                    <<FetchUnshallow, Git("merge-base", base, head), Git("diff", "merge-base", head)>>)

getCurrentRef == "feature"

\* A row and a page of pulls.listFiles; previous_filename is NoPath when the
\* row has no such key.
Row(filename, status, previous_filename) ==
  [filename |-> filename, status |-> status, previous_filename |-> previous_filename]
Page(status, data) == [status |-> status, data |-> data]

\* The pull request of the event: number, base.sha and head.sha of the payload,
\* and the pages the REST API lists for it.
PullRequest(number, baseSha, headSha, pages) ==
  [number |-> number, base |-> baseSha, head |-> headSha, listFiles |-> pages]

\* github.context: the event and the parts of its payload the detection reads.
Context(eventName, before) ==
  [eventName |-> eventName, ref |-> "refs/heads/feature", before |-> before,
   defaultBranch |-> "main",
   pull_request |-> PullRequest(42, BaseSha, HeadSha,
                                <<Page(200, <<Row(LegacyA, Modified, NoPath),
                                              Row(SrcA, Copied, LegacyA)>>)>>),
   tag_name |-> "v2.0.0",
   merge_group |-> [base_sha |-> BaseSha, head_sha |-> HeadSha]]

\* main.ts:44: parseInt(input) || 10.
initialFetchDepthOf(in) ==
  CASE in.initialFetchDepth = "100" -> 100
    [] in.initialFetchDepth = "5" -> 5
    [] OTHER -> 10                  \* not set (NaN) or 0

----------------------------------------------------------------------------
(* run(): the inputs of the action, and its steps up to the match call *)

ExportFormats == {"none", "csv", "json", "json-detailed", "shell", "escape", "lines"}
isExportFormat(value) == value \in ExportFormats
isPredicateQuantifier(value) == value \in PredicateQuantifier

InvalidListFiles == "Input parameter 'list-files' is set to invalid value"
InvalidQuantifier == "Input parameter 'predicate-quantifier' is set to invalid value"

\* core.getInput of every input ("" when not set), and the triggering event.
DefaultInput ==
  [given |-> TRUE, token |-> "", ref |-> "", base |-> "",
   filters |-> Obj(<<Entry("backend", Str(FALSE, GlobAll))>>),
   listFiles |-> "", writeToFiles |-> "", strictExcludes |-> "",
   files |-> <<>>, globalIgnore |-> "", initialFetchDepth |-> "",
   predicateQuantifier |-> "", context |-> Context("push", BeforeSha)]

\* The locals run() derives from the inputs (main.ts:36-45).
listFilesOf(in) == IF in.listFiles = "" THEN "none" ELSE in.listFiles
writeToFilesOf(in) == in.writeToFiles = "true"
strictExcludesOf(in) == IF in.strictExcludes # "" THEN in.strictExcludes = "true" ELSE FALSE
predicateQuantifierOf(in) == IF in.predicateQuantifier = "" THEN SOME ELSE in.predicateQuantifier
filterConfigOf(in) ==
  FilterConfig(predicateQuantifierOf(in), in.globalIgnore, strictExcludesOf(in))

\* main.ts:47-61: an invalid list-files value fails the run, an invalid
\* predicate-quantifier throws; both end the run before any file is detected.
ReadInputs ==
  /\ phase = "start"
  /\ IF ~isExportFormat(listFilesOf(input))
       THEN phase' = "failed" /\ error' = InvalidListFiles
       ELSE IF ~isPredicateQuantifier(predicateQuantifierOf(input))
         THEN phase' = "failed" /\ error' = InvalidQuantifier
         ELSE phase' = "validated" /\ error' = error
  /\ UNCHANGED <<rules, globalIgnorePatterns, filterConfig, files, results, repeated,
                 input, outputs, written, gitCalls>>

\* main.ts:65-75: the custom files input, one modified file per name.
UseCustomFiles ==
  /\ phase = "validated"
  /\ input.files # <<>>
  /\ files' = [i \in 1..Len(input.files) |-> File(input.files[i], Modified, input.files[i], NoPath)]
  /\ phase' = "detected"
  /\ UNCHANGED <<rules, globalIgnorePatterns, filterConfig, results, repeated,
                 input, error, outputs, written, gitCalls>>

\* main.ts:82-87: new Filter(filtersYaml, filterConfig); what it throws ends the run.
Construct ==
  /\ phase = "detected"
  /\ LET config == filterConfigOf(input)
         thrown == constructorThrows(input.filters, mergeConfig(config))
     IN  IF thrown # NoError
           THEN /\ phase' = "failed"
                /\ error' = thrown
                /\ UNCHANGED <<rules, globalIgnorePatterns, filterConfig>>
           ELSE /\ phase' = "constructed"
                /\ error' = error
                /\ filterConfig' = mergeConfig(config)
                /\ globalIgnorePatterns' = loadGlobalIgnore(mergeConfig(config))
                /\ rules' = parseRules(input.filters)
  /\ UNCHANGED <<files, results, repeated, input, outputs, written, gitCalls>>

\* main.ts:88: filter.match(files) on the detected files.
MatchDetected == phase = "constructed" /\ Match(files)

\* The rule specifications of a group, well-formed and not.
NestedMap == Obj(<<Entry(<<"some">>, Str(FALSE, GlobAll))>>)
ItemShapes ==
  { Str(FALSE, GlobAll),
    Arr(<<Str(FALSE, GlobLegacy), Str(TRUE, GlobSrc)>>),
    Arr(<<Str(FALSE, GlobAll), Obj(<<Entry(<<"dict">>, NestedMap)>>)>>),
    Arr(<<Str(FALSE, GlobAll), Num>>),
    Num, Null,
    Obj(<<Entry(KeyRenamed, Str(FALSE, GlobLegacy))>>),
    Obj(<<Entry(KeyRenamed, Arr(<<Str(FALSE, GlobLegacy), Str(TRUE, GlobSrc)>>))>>),
    Obj(<<Entry(KeyRenamed, Num)>>),
    Obj(<<Entry(KeyRenamed, Null)>>),
    Obj(<<Entry(KeyRenamed, NestedMap)>>),
    Obj(<<Entry(KeyRenamed, Arr(<<Str(FALSE, GlobLegacy), Num>>))>>),
    Obj(<<Entry(PathsIgnoreKey, Str(FALSE, GlobSrc))>>),
    Obj(<<Entry(PathsIgnoreKey, Arr(<<Str(FALSE, GlobSrc)>>))>>),
    Obj(<<Entry(PathsIgnoreKey, Num)>>),
    Obj(<<Entry(PathsIgnoreKey, NestedMap)>>),
    Obj(<<Entry(PathsIgnoreKey, Arr(<<Str(FALSE, GlobSrc), Num>>))>> ) }

\* The rules documents: mappings of one group, and roots that are no mapping.
Documents ==
  {Obj(<<Entry("backend", i)>>) : i \in ItemShapes}
    \cup {Obj(<<>>), Malformed, Str(FALSE, GlobAll), Num, Null,
          Arr(<<Str(FALSE, GlobAll)>>), Arr(<<Num>>)}

ConstructInputs ==
  {[DefaultInput EXCEPT !.filters = d, !.predicateQuantifier = q, !.globalIgnore = g,
                        !.strictExcludes = s, !.files = fs] :
     d \in Documents, q \in {"", SOME, EVERY, "all"},
     g \in {NoFile, MissingFile} \cup IgnoreFiles, s \in {"", "true"},
     fs \in {<<LegacyA>>, <<SrcA, LegacyA>>}}

InitRun(in) ==
  /\ input = in
  /\ phase = "start"
  /\ error = NoError
  /\ rules = <<>>
  /\ globalIgnorePatterns = <<>>
  /\ filterConfig = NoConfig
  /\ files = <<>>
  /\ results = <<>>
  /\ repeated = FALSE
  /\ outputs = <<>>
  /\ written = {}
  /\ gitCalls = <<>>

InitConstruct == \E in \in ConstructInputs : InitRun(in)

NextConstruct == ReadInputs \/ UseCustomFiles \/ Construct \/ MatchDetected

SpecConstruct == InitConstruct /\ [][NextConstruct]_vars

getChangedFilesFromGit(base0, head0, initialFetchDepth, ctx) ==
  LET defaultBranch == ctx.defaultBranch
      pushed == ctx.eventName = "push"          \* beforeSha is null unless the event is a push
      beforeSha == ctx.before
      currentRef == getCurrentRef
      head == getShortName(IF head0 # "" THEN head0 ELSE IF ctx.ref # "" THEN ctx.ref ELSE currentRef)
      base == getShortName(IF base0 # "" THEN base0 ELSE defaultBranch)
      isBaseSha == isGitSha(base)
      isBaseSameAsHead == base = head
  IN  IF head = "" THEN Thrown(HeadRequired, <<>>)
      ELSE IF base = "" THEN Thrown(BaseRequired, <<>>)
      ELSE IF isBaseSha \/ (isBaseSameAsHead /\ pushed /\ beforeSha # NULL_SHA)
        THEN getChanges(IF isBaseSha THEN base ELSE beforeSha, head)
        ELSE getChangesSinceMergeBase(base, head, initialFetchDepth)

ApiFailed == "Fetching list of changed files from GitHub API failed with error code"
ApiFallbackLimit == 4000

\* main.ts:258-306: the File of one row of the listing.
rowToFile(row) ==
  LET previousFilename == row.previous_filename
  IN  IF row.status = Renamed THEN
        (IF previousFilename = NoPath
           THEN File(row.filename, Added, row.filename, NoPath)
           ELSE File(row.filename, Renamed, previousFilename, row.filename))
      ELSE IF row.status = Copied THEN
        (IF previousFilename = NoPath
           THEN File(row.filename, Added, row.filename, NoPath)
           ELSE File(row.filename, Copied, previousFilename, row.filename))
      ELSE File(row.filename, IF row.status = "removed" THEN Deleted ELSE row.status,
                row.filename, NoPath)

\* The Files of the pages of the listing, in order.
apiFiles(pages) ==
  Flat([p \in 1..Len(pages) |-> [r \in 1..Len(pages[p].data) |-> rowToFile(pages[p].data[r])]])

\* The listed rows returned whenever the listing succeeds, without the fallback.
getChangedFilesFromApi_NeverFallsBack(token, pullRequest) ==
  LET pages == pullRequest.listFiles
      listFiles == <<Git("listFiles", token, "")>>
  IN  IF \E p \in 1..Len(pages) : pages[p].status # 200 THEN Thrown(ApiFailed, listFiles)
      ELSE Detected(apiFiles(pages), listFiles)

getChangedFilesFromApi(token, pullRequest) ==
  LET pages == pullRequest.listFiles
      files_ == apiFiles(pages)
      listFiles == <<Git("listFiles", token, "")>>
  IN  IF \E p \in 1..Len(pages) : pages[p].status # 200 THEN Thrown(ApiFailed, listFiles)
      ELSE IF Len(files_) < ApiFallbackLimit /\ pullRequest.number > 0
              /\ pullRequest.base # "" /\ pullRequest.head # ""
        THEN LET fallback == getChanges(pullRequest.base, pullRequest.head)
             IN  [fallback EXCEPT !.calls = listFiles \o @]
        ELSE Detected(files_, listFiles)

prEvents == {"pull_request", "pull_request_review", "pull_request_review_comment", "pull_request_target"}

\* git tag --sort=-creatordate: the tag before the current one.
getPreviousTag(currentTag) == "v1.0.0"

getChangedFiles(token, base, ref, initialFetchDepth, ctx) ==
  IF base = HEAD THEN getChangesOnHead
  ELSE IF ctx.eventName \in prEvents THEN
    IF token # "" THEN getChangedFilesFromApi(token, ctx.pull_request)
    ELSE IF ctx.eventName = "pull_request_target" THEN Thrown(TokenRequired, <<>>)
    ELSE LET baseSha == ctx.pull_request.base
             safeBase == IF baseSha # "" THEN baseSha ELSE ctx.defaultBranch
         IN  getChanges(IF base # "" THEN base ELSE safeBase, getCurrentRef)
  ELSE IF ctx.eventName = "release" /\ ctx.tag_name # "" THEN
    LET ref1 == IF ref = "" THEN ctx.tag_name ELSE ref
        base1 == IF base = "" THEN getPreviousTag(ctx.tag_name) ELSE base
        detected == getChangedFilesFromGit(base1, ref1, initialFetchDepth, ctx)
    IN  IF base = "" THEN [detected EXCEPT !.calls = <<Git("tag", "", "")>> \o @] ELSE detected
  ELSE IF ctx.eventName = "merge_group" THEN
    getChangedFilesFromGit(IF base = "" THEN ctx.merge_group.base_sha ELSE base,
                           IF ref = "" THEN ctx.merge_group.head_sha ELSE ref,
                           initialFetchDepth, ctx)
  ELSE getChangedFilesFromGit(base, ref, initialFetchDepth, ctx)

\* main.ts:76-78: without a custom files input the changes are detected.
GetChangedFiles ==
  /\ phase = "validated"
  /\ input.files = <<>>
  /\ LET detected == getChangedFiles(input.token, input.base, input.ref,
                                     initialFetchDepthOf(input), input.context)
     IN  /\ files' = detected.files
         /\ gitCalls' = detected.calls
         /\ error' = detected.error
         /\ phase' = IF detected.error # NoError THEN "failed" ELSE "detected"
  /\ UNCHANGED <<rules, globalIgnorePatterns, filterConfig, results, repeated,
                 input, outputs, written>>

Events == prEvents \cup {"push", "release", "merge_group", "workflow_dispatch"}

DetectInputs ==
  {[DefaultInput EXCEPT !.token = t, !.base = b, !.ref = r, !.initialFetchDepth = d,
                        !.context = Context(e, before)] :
     t \in {"", "token"}, b \in {"", HEAD, "main", "develop", "feature", BaseSha},
     r \in {"", "develop"}, d \in {"", "100", "5"}, e \in Events, before \in {NULL_SHA, BeforeSha}}

InitDetect == \E in \in DetectInputs : InitRun(in)

NextDetect == ReadInputs \/ GetChangedFiles \/ Construct \/ MatchDetected

SpecDetect == InitDetect /\ [][NextDetect]_vars

\* What pulls.listFiles may answer: the rows of a rename and a removal, rows of
\* every other kind, no row, a failed request after a first page, and a listing
\* that fills its 40 pages of 100 rows.
PerPage == 100
FullPages == 40
Listings ==
  { <<Page(200, <<Row(LegacyA, "removed", NoPath), Row(SrcA, Renamed, LegacyA)>>)>>,
    <<Page(200, <<Row(SrcA, Copied, LegacyA), Row(LegacyA, Modified, NoPath)>>),
      Page(200, <<Row(SrcA, Renamed, NoPath), Row(LegacyA, Copied, NoPath), Row(SrcA, Added, NoPath)>>)>>,
    <<Page(200, <<>>)>>,
    <<Page(200, <<Row(LegacyA, Modified, NoPath)>>), Page(502, <<>>)>>,
    [p \in 1..FullPages |-> Page(200, [r \in 1..PerPage |-> Row(SrcA, Modified, NoPath)])] }

PullRequests ==
  {PullRequest(n, b, h, l) : n \in {0, 42}, b \in {"", BaseSha}, h \in {"", HeadSha}, l \in Listings}

\* Runs of every provider of files: the custom files input, git, the REST API.
ProviderInputs ==
  {[DefaultInput EXCEPT !.files = fs] : fs \in {<<LegacyA>>, <<SrcA, LegacyA>>}}
    \cup {[DefaultInput EXCEPT !.base = b, !.ref = r, !.context = Context(e, before)] :
            b \in {"", HEAD, "develop", "feature", BeforeSha}, r \in {"", "develop"},
            e \in {"push", "release", "merge_group", "workflow_dispatch"},
            before \in {NULL_SHA, BeforeSha}}
    \cup {[DefaultInput EXCEPT !.token = "token",
                               !.context = [Context("pull_request", NULL_SHA) EXCEPT !.pull_request = pr]] :
            pr \in PullRequests}

InitProviders == \E in \in ProviderInputs : InitRun(in)

NextProviders == ReadInputs \/ UseCustomFiles \/ GetChangedFiles \/ Construct \/ MatchDetected

SpecProviders == InitProviders /\ [][NextProviders]_vars

----------------------------------------------------------------------------
(* exportResults: the outputs of the action *)

RECURSIVE join(_, _)
join(strs, sep) ==
  IF strs = <<>> THEN ""
  ELSE IF Len(strs) = 1 THEN strs[1]
  ELSE strs[1] \o sep \o join(Tail(strs), sep)

filenameText(path) == join(path, "/")        \* the filename as the string it is

\* JSON.stringify of an array of strings that need no escaping.
JSONstringify(strs) ==
  "[" \o join([i \in 1..Len(strs) |-> "\"" \o strs[i] \o "\""], ",") \o "]"

\* The formats without escaping of the filenames; 'none' gives the empty string.
serializeExport(fs, format) ==
  LET names == [i \in 1..Len(fs) |-> filenameText(fs[i].filename)]
  IN  CASE format = "json" -> JSONstringify(names)
        [] format = "lines" -> join(names, "\n")
        [] OTHER -> ""

getExtension(format) ==
  CASE format = "json" -> "json"
    [] format = "csv" -> "csv"
    [] OTHER -> "txt"

setOutput(name, value) == [name |-> name, value |-> value]

\* The file of a group: a fresh directory (mkdtempSync) and `${key}_files.${ext}`.
filePathOf(g, key, format) ==
  [dir |-> "paths-filter-" \o ToString(g), name |-> key \o "_files." \o getExtension(format)]

\* Writing whenever write-to-files is set, also the empty list of a group without matches.
shouldWrite_AlsoEmpty(format, writeToFiles, value) == format # "none" /\ writeToFiles

\* main.ts:381-386: the conditions under which the file of a group is written.
shouldWrite(format, writeToFiles, value) == format # "none" /\ writeToFiles /\ value

\* main.ts:351-402, one turn of the loop: the outputs of one group; the write
\* fails (writeFileSync throws, caught) for the groups in writeFails.
exportGroup(g, key, fs, format, writeToFiles, writeFails) ==
  LET value == Len(fs) > 0
  IN  <<setOutput(key, value), setOutput(key \o "_count", Len(fs))>>
        \o (IF format # "none" THEN <<setOutput(key \o "_files", serializeExport(fs, format))>> ELSE <<>>)
        \o (IF shouldWrite(format, writeToFiles, value) /\ g \notin writeFails
              THEN <<setOutput(key \o "_files_path", filePathOf(g, key, format))>> ELSE <<>>)

\* all_changed set when at least one group matched.
allChanged_AnyGroup(res) ==
  Cardinality({g \in 1..Len(res) : Len(res[g].files) > 0}) > 0

\* main.ts:349-355, 405: resultsObjLength === counter.
allChanged(res) ==
  LET resultsObjLength == Len(res)
      counter == Cardinality({g \in 1..Len(res) : Len(res[g].files) > 0})
  IN  resultsObjLength = counter

anyChanged(res) == \E g \in 1..Len(res) : Len(res[g].files) > 0

\* The name of every group, matched or not.
changes_EveryGroup(res) == [g \in 1..Len(res) |-> res[g].key]

\* main.ts:347, 358-359: the names of the groups with matches, in result order.
changes(res) ==
  LET matched == SelectSeq(res, LAMBDA r : Len(r.files) > 0)
  IN  [g \in 1..Len(matched) |-> matched[g].key]

\* `shared` listed like any other group.
filteredShared_KeepShared(res) == changes(res)

\* main.ts:410: changes.filter((change) => change !== 'shared').
filteredShared(res) == SelectSeq(changes(res), LAMBDA change : change # "shared")

exportResults(res, format, writeToFiles, writeFails) ==
  [outputs |->
     Flat([g \in 1..Len(res) |->
             exportGroup(g, res[g].key, res[g].files, format, writeToFiles, writeFails)])
       \o <<setOutput("all_changed", allChanged(res)), setOutput("any_changed", anyChanged(res))>>
       \o (IF \A g \in 1..Len(res) : res[g].key # "changes"
             THEN <<setOutput("changes", JSONstringify(filteredShared(res)))>> ELSE <<>>),
   written |->
     {filePathOf(g, res[g].key, format) : g \in
        {h \in 1..Len(res) : shouldWrite(format, writeToFiles, Len(res[h].files) > 0) /\ h \notin writeFails}}]

\* main.ts:89: exportResults(results, listFiles, writeToFiles).
ExportResults ==
  /\ phase = "matched"
  /\ \E writeFails \in SUBSET {g \in 1..Len(results) :
         shouldWrite(listFilesOf(input), writeToFilesOf(input), Len(results[g].files) > 0)} :
       LET exported == exportResults(results, listFilesOf(input), writeToFilesOf(input), writeFails)
       IN  outputs' = exported.outputs /\ written' = exported.written
  /\ phase' = "exported"
  /\ UNCHANGED <<rules, globalIgnorePatterns, filterConfig, files, results, repeated,
                 input, error, gitCalls>>

MaxGroups == 2     \* most groups in a rules document of the exported runs

ExportKeys == {"backend", "other", "shared", "changes"}
ExportGroupSpecs == {Str(FALSE, GlobLegacy), Str(FALSE, GlobSrc)}
ExportYamls ==
  {Obj([i \in 1..Len(ks) |-> Entry(ks[i], vs[i])]) :
     <<ks, vs>> \in
       {kv \in SeqsUpTo(ExportKeys, MaxGroups) \X SeqsUpTo(ExportGroupSpecs, MaxGroups) :
          /\ Len(kv[1]) = Len(kv[2])
          /\ \A i, j \in 1..Len(kv[1]) : i # j => kv[1][i] # kv[1][j]}}

ExportInputs ==
  {[DefaultInput EXCEPT !.filters = d, !.listFiles = l, !.writeToFiles = w, !.files = fs] :
     d \in ExportYamls, l \in {"", "json", "lines"}, w \in {"", "true"},
     fs \in {<<LegacyA>>, <<SrcA>>, <<SrcA, LegacyA>>}}

InitExport == \E in \in ExportInputs : InitRun(in)

NextExport == ReadInputs \/ UseCustomFiles \/ Construct \/ MatchDetected \/ ExportResults

SpecExport == InitExport /\ [][NextExport]_vars

----------------------------------------------------------------------------
(* Vocabulary of the properties *)

Matched == phase = "matched"
Groups == 1..Len(rules)
Batch == {files[i] : i \in 1..Len(files)}
Elems(s) == {s[i] : i \in 1..Len(s)}
RulesOf(g) == Elems(rules[g].rules)
AllRules == UNION {RulesOf(g) : g \in Groups}
InResult(g, f) == f \in Elems(results[g].files)

\* "A rule fires on a file", as the design states it.
TargetsRenamed(rule) == rule.hasStatus /\ Renamed \in rule.status
PathVariants(file, rule) ==
  {file.filename}
    \cup {p \in {file.to} : p # NoPath}
    \cup {p \in {file.from, file.previous_filename} :
            /\ p # NoPath
            /\ \/ ~rule.negate /\ TargetsRenamed(rule)
               \/ ~TargetsRenamed(rule) /\ file.status \notin {Renamed, Copied}}
Fires(file, rule) ==
  /\ rule.hasStatus => file.status \in rule.status
  /\ \E p \in PathVariants(file, rule) : GlobMatch(rule.isMatch.glob, p)

Ignored(file) ==
  \E k \in 1..Len(globalIgnorePatterns) :
    ~globalIgnorePatterns[k].negated /\ GlobMatch(globalIgnorePatterns[k].matcher.glob, file.filename)

----------------------------------------------------------------------------
----------------------------------------------------------------------------
\* C2 -- isMatch(file, rules) is positiveMatch AND NOT negativeMatch, where
\* positiveMatch holds when the group has no positive rule, else under `every`
\* when all positive rules fire, else (under `some`, the default without a
\* config) when at least one fires; negativeMatch is "some negative rule fires"
\* under both quantifiers.
RefIsMatch(f, rs, quantifier) ==
  LET positives == {k \in 1..Len(rs) : ~rs[k].negate}
      negatives == {k \in 1..Len(rs) : rs[k].negate}
      positiveMatch ==
        \/ positives = {}
        \/ quantifier = EVERY /\ positives # {} /\ \A k \in positives : Fires(f, rs[k])
        \/ quantifier # EVERY /\ \E k \in positives : Fires(f, rs[k])
      negativeMatch == \E k \in negatives : Fires(f, rs[k])
  IN  positiveMatch /\ ~negativeMatch

Blanked ==
  /\ filterConfig.strictExcludes
  /\ \E f \in Batch : ~Ignored(f) /\ \E r \in AllRules : r.negate /\ GlobMatch(r.isMatch.glob, f.filename)

----------------------------------------------------------------------------
\* C3 -- Global ignore precedes rules: a file whose filename matches a
\* non-negated global ignore pattern is in no group's list, even when the
\* group's rules match it.
ThmC3_GlobalIgnoreFirst ==
  Matched => \A f \in Batch : Ignored(f) => \A g \in Groups : ~InResult(g, f)

\* An ignored file that the rules of a group match, in a batch that is not
\* blanked: another file of the batch is in that group's list.
WitC3_IgnoredThoughMatching ==
  /\ Matched
  /\ \E g \in Groups : \E f \in Batch :
       /\ Ignored(f)
       /\ RefIsMatch(f, rules[g].rules, filterConfig.predicateQuantifier)
       /\ ~InResult(g, f)
       /\ results[g].files # <<>>

----------------------------------------------------------------------------
\* C4 (as claimed) -- with strictExcludes, if any file of the batch matches any
\* negative rule of any group, every group's list is empty.
OrigC4_AnyFileOfBatch ==
  (Matched /\ filterConfig.strictExcludes) =>
    ((\E f \in Batch : \E r \in AllRules : r.negate /\ Fires(f, r))
      => \A g \in Groups : results[g].files = <<>>)

\* C4 (amended) -- with strictExcludes, if any file of the batch that global
\* ignore filtering leaves in has a filename matching the glob of any negative
\* rule of any group, every group's list is empty: also the groups without
\* that rule, also for the files matching no negative rule.
ThmC4_StrictExcludes ==
  (Matched /\ filterConfig.strictExcludes) =>
    ((\E f \in Batch : ~Ignored(f) /\ \E r \in AllRules : r.negate /\ GlobMatch(r.isMatch.glob, f.filename))
      => \A g \in Groups : results[g].files = <<>>)

\* A blanked batch: one file matches a negative rule of one group; another
\* file matches no negative rule anywhere and a group without negative rules
\* would list it.
WitC4_BlankedAcrossGroups ==
  /\ Matched /\ filterConfig.strictExcludes
  /\ \E f \in Batch : ~Ignored(f) /\ \E r \in AllRules : r.negate /\ Fires(f, r)
  /\ \E g \in Groups : \E f \in Batch :
       /\ \A r \in RulesOf(g) : ~r.negate
       /\ ~Ignored(f)
       /\ \A r \in AllRules : r.negate => ~GlobMatch(r.isMatch.glob, f.filename)
       /\ RefIsMatch(f, rules[g].rules, filterConfig.predicateQuantifier)
       /\ results[g].files = <<>>

----------------------------------------------------------------------------
\* The rename case: a non-negated rule that targets `renamed`, whose glob
\* matches the origin but not the destination of a renamed file.
RenameCase(f, r) ==
  /\ ~r.negate /\ TargetsRenamed(r)
  /\ f.status = Renamed /\ f.to = f.filename /\ f.from # NoPath
  /\ GlobMatch(r.isMatch.glob, f.from) /\ ~GlobMatch(r.isMatch.glob, f.filename)

\* C5 (as claimed) -- in the rename case the rule fires on the file and, when
\* it is the only rule of its group, the file is in that group's list.
OrigC5_RenameIncluded ==
  Matched =>
    \A g \in Groups : \A f \in Batch : \A r \in RulesOf(g) :
      RenameCase(f, r) =>
        /\ aPredicate(f, r)
        /\ Len(rules[g].rules) = 1 => InResult(g, f)

\* C5 (amended) -- in the rename case the rule fires on the file and, when it
\* is the only rule of its group, the file is in that group's list unless a
\* global ignore pattern removed the file or strict excludes blanked the batch.
ThmC5_RenameVariant ==
  Matched =>
    \A g \in Groups : \A f \in Batch : \A r \in RulesOf(g) :
      RenameCase(f, r) =>
        /\ aPredicate(f, r)
        /\ (Len(rules[g].rules) = 1 /\ ~Ignored(f) /\ ~Blanked) => InResult(g, f)

\* A renamed file listed by the only rule of a group, which matches its origin only.
WitC5_ListedByOrigin ==
  /\ Matched
  /\ \E g \in Groups : \E f \in Batch :
       /\ Len(rules[g].rules) = 1
       /\ RenameCase(f, rules[g].rules[1])
       /\ InResult(g, f)

----------------------------------------------------------------------------
\* C6 -- Copy path-variant law: a rule that does not target `renamed` (no
\* status, or status `copied` only) and whose glob matches only the origin
\* never fires on a copied file with from = origin, to = filename =
\* destination: such a rule of the configuration does not, nor does the rule
\* parsed from a `copied` key.
CopiedKeyRules ==
  UNION {Elems(parseFilterItemYaml(Obj(<<Entry(<<"copied">>, Str(b, g))>>))) :
           b \in BOOLEAN, g \in Globs}

CopyCase(f, r) ==
  /\ ~r.hasStatus \/ r.status = {Copied}
  /\ f.status = Copied /\ f.to = f.filename /\ f.from # NoPath
  /\ GlobMatch(r.isMatch.glob, f.from) /\ ~GlobMatch(r.isMatch.glob, f.filename)

ThmC6_CopyVariant ==
  Matched =>
    /\ \A f \in Batch : \A r \in AllRules \cup CopiedKeyRules : CopyCase(f, r) => ~aPredicate(f, r)
    /\ \A g \in Groups : \A f \in Batch :
         (Len(rules[g].rules) = 1 /\ ~rules[g].rules[1].negate /\ CopyCase(f, rules[g].rules[1]))
           => ~InResult(g, f)

\* A copied file left out by the only rule of a group, a positive rule without
\* status that matches its origin only; the batch is neither ignored nor blanked.
WitC6_OriginNotConsidered ==
  /\ Matched
  /\ \E g \in Groups : \E f \in Batch :
       /\ Len(rules[g].rules) = 1
       /\ ~rules[g].rules[1].negate
       /\ CopyCase(f, rules[g].rules[1])
       /\ ~Ignored(f) /\ ~Blanked
       /\ ~InResult(g, f)

----------------------------------------------------------------------------
\* C7 -- a rule fires on a file only if its status constraint admits the file:
\* a rule parsed from a status key never fires on a file whose status is not in
\* the key's set, whatever the glob matches, and a group whose positive rules
\* all exclude the file's status does not list it; a rule without status fires
\* on a file of any status exactly when one of its path variants matches the glob.
ThmC7_StatusConstraint ==
  /\ \A f \in Batch : \A r \in AllRules :
       /\ (r.hasStatus /\ f.status \notin r.status) => ~aPredicate(f, r)
       /\ ~r.hasStatus =>
            (aPredicate(f, r) <=> \E p \in PathVariants(f, r) : GlobMatch(r.isMatch.glob, p))
  /\ Matched =>
       \A g \in Groups : \A f \in Batch :
         (/\ \E r \in RulesOf(g) : ~r.negate
          /\ \A r \in RulesOf(g) : ~r.negate => (r.hasStatus /\ f.status \notin r.status))
           => ~InResult(g, f)

\* The rule parsed from the key "Added| Modified " admits exactly added and
\* modified: its group lists an added file and leaves out a renamed file of the
\* same batch whose path the glob matches.
WitC7_StatusNotAdmitted ==
  /\ Matched
  /\ \E g \in Groups : \E f1, f2 \in Batch :
       /\ Len(rules[g].rules) = 1
       /\ rules[g].rules[1].hasStatus /\ rules[g].rules[1].status = {Added, Modified}
       /\ f1.status = Added /\ InResult(g, f1)
       /\ f2.status = Renamed /\ GlobMatch(rules[g].rules[1].isMatch.glob, f2.filename)
       /\ ~InResult(g, f2)

----------------------------------------------------------------------------
----------------------------------------------------------------------------
\* C9 -- ALL-quantifier monotonicity: under `every`, for the batch of every
\* call, adding one more positive rule to a group gives a match set of that
\* group that is a subset of the one before the addition.
AddableRules == UNION {Elems(parseFilterItemYaml(item)) : item \in Items}
WithRule(rs, g, r) == [rs EXCEPT ![g].rules = Append(@, r)]
MatchSet(rs, config, g) == Elems(match(files, rs, globalIgnorePatterns, config)[g].files)

ThmC9_EveryMonotone ==
  (Matched /\ filterConfig.predicateQuantifier = EVERY) =>
    \A g \in Groups : \A r \in AddableRules :
      ~r.negate => MatchSet(WithRule(rules, g, r), filterConfig, g) \subseteq Elems(results[g].files)

\* Under `every`, a group that lists a file and would not list it with one
\* more positive rule.
WitC9_ShrinksStrictly ==
  /\ Matched /\ filterConfig.predicateQuantifier = EVERY
  /\ \E g \in Groups : \E r \in AddableRules :
       /\ ~r.negate
       /\ \E r0 \in RulesOf(g) : ~r0.negate
       /\ MatchSet(WithRule(rules, g, r), filterConfig, g) # Elems(results[g].files)

----------------------------------------------------------------------------
\* C10 -- Quantifier independence: when no group has a negative rule and every
\* group has at most one positive rule, match returns the same lists under
\* `some` and under `every`.
AtMostOnePositiveNoNegative ==
  \A g \in Groups : Len(rules[g].rules) <= 1 /\ \A r \in RulesOf(g) : ~r.negate

WithQuantifier(q) == [filterConfig EXCEPT !.predicateQuantifier = q]

ThmC10_QuantifierIndependence ==
  (Matched /\ AtMostOnePositiveNoNegative) =>
    /\ match(files, rules, globalIgnorePatterns, WithQuantifier(SOME)) = results
    /\ match(files, rules, globalIgnorePatterns, WithQuantifier(EVERY)) = results

\* Groups of one positive rule each, one of them listing one file of the batch
\* and leaving out another.
WitC10_OnePositiveEach ==
  /\ Matched /\ AtMostOnePositiveNoNegative
  /\ \A g \in Groups : Len(rules[g].rules) = 1
  /\ \E g \in Groups : \E f \in Batch : InResult(g, f) /\ Len(results[g].files) < Len(files)

----------------------------------------------------------------------------
\* A markdown file under pkg/a/b/c, and the plain configurations (no global
\* ignore file, no strict excludes) of the README example.
MarkdownUnderPkg(f) ==
  /\ Len(f.filename) = Len(PkgDir) + 1
  /\ SubSeq(f.filename, 1, Len(PkgDir)) = PkgDir
  /\ Extension(f.filename[Len(f.filename)]) = ".md"
PlainConfig == globalIgnorePatterns = <<>> /\ ~filterConfig.strictExcludes

----------------------------------------------------------------------------
\* The shapes of a rule specification: a string, an array of specifications, a
\* paths-ignore object or a status object, the value under every key being a
\* string or an array of strings.
StringOrStrings(v) ==
  \/ v.t = "str"
  \/ v.t = "arr" /\ \A i \in 1..Len(v.items) : v.items[i].t = "str"

RECURSIVE WellShaped(_)
WellShaped(item) ==
  \/ item.t = "str"
  \/ item.t = "arr" /\ \A i \in 1..Len(item.items) : WellShaped(item.items[i])
  \/ item.t = "obj" /\ \A e \in 1..Len(item.entries) : StringOrStrings(item.entries[e].value)

\* The run reached new Filter(...), and the constructor reached the parsing of
\* the groups: the root is a mapping and the global-ignore file, if any, was read.
ConstructAttempted ==
  \/ phase \in {"constructed", "matched"}
  \/ phase = "failed" /\ error \notin {InvalidListFiles, InvalidQuantifier}
RootIsMapping == input.filters.t = "obj"
IgnoreReadable == input.globalIgnore = NoFile \/ existsSync(input.globalIgnore)
SomeItemIllShaped ==
  RootIsMapping /\ \E e \in 1..Len(input.filters.entries) : ~WellShaped(input.filters.entries[e].value)

\* C11 (as claimed) -- parsing a rule specification that is not a string, an
\* array of specifications, a paths-ignore object or a status object, or in
\* which the value under a key is neither a string nor an array of strings,
\* fails with the 'Invalid filter ...' format error and with no other error.
OrigC11_InvalidFormatOnly ==
  (ConstructAttempted /\ IgnoreReadable /\ SomeItemIllShaped)
    => (phase = "failed" /\ error = InvalidFormat)

----------------------------------------------------------------------------
\* C12 (as claimed) -- constructing a Filter from a document whose root is a
\* scalar, null or a sequence fails with the invalid-format error and
\* produces no rule groups.
OrigC12_RootNotMapping ==
  (ConstructAttempted /\ input.filters.t \in {"str", "num", "null", "arr"})
    => (phase = "failed" /\ error = InvalidFormat /\ rules = <<>>)

----------------------------------------------------------------------------
\* C13 (as claimed) -- every configuration error (a malformed rules document,
\* an unreadable global-ignore file, an invalid quantifier value) is raised at
\* construction: no Filter instance exists afterwards, match is never run with
\* such a configuration, and an invalid quantifier is never read as `some`.
ConfigurationError ==
  \/ input.filters = Malformed
  \/ ~RootIsMapping
  \/ SomeItemIllShaped
  \/ ~IgnoreReadable
  \/ ~isPredicateQuantifier(predicateQuantifierOf(input))

OrigC13_ConfigurationErrorsFatal ==
  ConfigurationError =>
    /\ phase \notin {"constructed", "matched"}
    /\ rules = <<>> /\ results = <<>> /\ filterConfig = NoConfig
    /\ ConstructAttempted => (phase = "failed" /\ error # NoError)


----------------------------------------------------------------------------
\* The outputs of a run: the value an output was last set to.
Exported == phase = "exported"
OutputSet(name) == \E i \in 1..Len(outputs) : outputs[i].name = name
Output(name) ==
  outputs[CHOOSE i \in 1..Len(outputs) :
            outputs[i].name = name /\ \A j \in (i + 1)..Len(outputs) : outputs[j].name # name].value
GroupMatched(g) == results[g].files # <<>>
GroupNamed(name) == \E g \in Groups : results[g].key = name

----------------------------------------------------------------------------
\* The names of the groups that matched, in result order.
MatchedNames ==
  LET matched == SelectSeq(results, LAMBDA r : r.files # <<>>)
  IN  [g \in 1..Len(matched) |-> matched[g].key]

----------------------------------------------------------------------------
----------------------------------------------------------------------------
\* C18 -- '<group>_files_path' is set only when write-to-files is enabled,
\* list-files is not 'none' and the group matched at least one file; in every
\* other case it is not set and no file is written for the group; '<group>'
\* and '<group>_count' are set for every group, and '<group>_files' for every
\* group exactly when list-files is not 'none'.
FileWrittenFor(g) == \E f \in written : f.name = results[g].key \o "_files." \o getExtension(listFilesOf(input))

ThmC18_FilesPath ==
  Exported =>
    /\ \A g \in Groups :
         LET key == results[g].key
             enabled == /\ writeToFilesOf(input)
                        /\ listFilesOf(input) # "none"
                        /\ GroupMatched(g)
         IN  /\ OutputSet(key \o "_files_path") => enabled
             /\ ~enabled => ~FileWrittenFor(g)
             /\ OutputSet(key \o "_files_path") =>
                  (FileWrittenFor(g) /\ Output(key \o "_files_path") \in written)
             /\ OutputSet(key) /\ OutputSet(key \o "_count")
             /\ OutputSet(key \o "_files") <=> listFilesOf(input) # "none"
    /\ \A f \in written : \E g \in Groups :
         OutputSet(results[g].key \o "_files_path") /\ Output(results[g].key \o "_files_path") = f

\* write-to-files with a list format: the group that matched has its file and
\* its path output, the group without matches has neither.
WitC18_WrittenForMatchedOnly ==
  /\ Exported /\ writeToFilesOf(input) /\ listFilesOf(input) = "json"
  /\ \E g, h \in Groups :
       /\ GroupMatched(g) /\ OutputSet(results[g].key \o "_files_path") /\ FileWrittenFor(g)
       /\ ~GroupMatched(h) /\ ~OutputSet(results[h].key \o "_files_path") /\ ~FileWrittenFor(h)
       /\ Output(results[h].key \o "_files") = "[]"


----------------------------------------------------------------------------
(* C19: the base input under pull request events *)

DetectionRan == phase \in {"detected", "constructed", "matched"} \/ (phase = "failed" /\ input.files = <<>>)
PullRequestEvent == input.context.eventName \in prEvents
ChangeSet(fs) == {fs[i] : i \in 1..Len(fs)}
WithoutBase ==
  getChangedFiles(input.token, "", input.ref, initialFetchDepthOf(input), input.context)

\* C19: under a pull request event the base input is ignored: whatever its
\* value, with or without a token, the changes detected (and the failure, if
\* any) are those detected with base empty.
OrigC19_BaseIgnored ==
  (PullRequestEvent /\ DetectionRan) =>
    /\ ChangeSet(files) = ChangeSet(WithoutBase.files)
    /\ error = WithoutBase.error

----------------------------------------------------------------------------
(* C20: the fetches before the merge base *)

SinceMergeBase == \E i \in 1..Len(gitCalls) : gitCalls[i].cmd = "merge-base"
Fetches == SelectSeq(gitCalls, LAMBDA c : c.cmd = "fetch")
DocumentedDepth ==
  CASE input.initialFetchDepth = "" -> 100
    [] input.initialFetchDepth = "100" -> 100
    [] input.initialFetchDepth = "5" -> 5

\* C20: when the changes are detected against the merge base, the first fetch
\* asks for initial-fetch-depth commits (100 when the input is not set) and
\* every following fetch asks for twice the depth of the one before it.
OrigC20_DoublingFetches ==
  SinceMergeBase =>
    /\ Len(Fetches) >= 1
    /\ ~Fetches[1].unshallow
    /\ Fetches[1].depth = DocumentedDepth
    /\ \A i \in 2..Len(Fetches) : Fetches[i].depth = 2 * Fetches[i - 1].depth


----------------------------------------------------------------------------
\* C23 -- negated global-ignore entries never rescue a file: match drops a
\* file exactly when a non-negated ignore pattern matches its filename, and
\* the same ignore file without its "!" lines, or with more of them, gives the
\* same result for the batch.
WithIgnoreFile(path) == loadGlobalIgnore([filterConfig EXCEPT !.globalIgnore = path])
NonNegatedMatches(f, ignores) ==
  \E k \in 1..Len(ignores) : ~ignores[k].negated /\ GlobMatch(ignores[k].matcher.glob, f.filename)
NegatedMatches(f, ignores) ==
  \E k \in 1..Len(ignores) : ignores[k].negated /\ GlobMatch(ignores[k].matcher.glob, f.filename)

ThmC23_NegatedNeverRescue ==
  Matched =>
    /\ \A f \in Batch :
         f \in Elems(globalIgnoreFilter(files, globalIgnorePatterns))
           <=> ~NonNegatedMatches(f, globalIgnorePatterns)
    /\ \A f \in Batch :
         NonNegatedMatches(f, globalIgnorePatterns) => \A g \in Groups : ~InResult(g, f)
    /\ filterConfig.globalIgnore # NoFile =>
         \A path \in IgnoreVariants :
           match(files, rules, WithIgnoreFile(path), filterConfig) = results

\* A batch with a file that a "!" line and a plain line both match, left out
\* of a group that lists the other file of the batch.
WitC23_NegatedLineMatches ==
  /\ Matched
  /\ \E f \in Batch :
       /\ NegatedMatches(f, globalIgnorePatterns)
       /\ NonNegatedMatches(f, globalIgnorePatterns)
       /\ \E g \in Groups : ~InResult(g, f) /\ results[g].files # <<>>


----------------------------------------------------------------------------
\* C24 -- the strict-excludes check sees only the files global ignore
\* filtering leaves in: when every file of the batch whose filename matches
\* the glob of a negative rule was dropped by a global ignore pattern, the
\* batch is not blanked and match returns what it returns without strict
\* excludes.
MatchesNegativeGlob(f) == \E r \in AllRules : r.negate /\ GlobMatch(r.isMatch.glob, f.filename)
WithStrict(b) == [filterConfig EXCEPT !.strictExcludes = b]

ThmC24_IgnoredNeverTriggers ==
  (Matched /\ filterConfig.strictExcludes) =>
    ((\A f \in Batch : MatchesNegativeGlob(f) => Ignored(f))
      => results = match(files, rules, globalIgnorePatterns, WithStrict(FALSE)))

\* Strict excludes on, an ignored file matching a negative rule, and a group
\* that still lists another file of the batch.
WitC24_IgnoredMatchesNegative ==
  /\ Matched /\ filterConfig.strictExcludes
  /\ \E f \in Batch : Ignored(f) /\ \E r \in AllRules : r.negate /\ Fires(f, r)
  /\ \A f \in Batch : MatchesNegativeGlob(f) => Ignored(f)
  /\ \E g \in Groups : results[g].files # <<>>


----------------------------------------------------------------------------
\* C25 (as claimed) -- with strictExcludes, when no negative rule of any group
\* fires on any file of the batch, match returns the mapping it returns with
\* strictExcludes disabled; and with strictExcludes disabled no batch is blanked.
NeverBlankedWhenOff ==
  (Matched /\ ~filterConfig.strictExcludes) =>
    \A g \in Groups : \A f \in Batch :
      (~Ignored(f) /\ RefIsMatch(f, rules[g].rules, filterConfig.predicateQuantifier))
        => InResult(g, f)

OrigC25_NoNegativeFires ==
  /\ (Matched /\ filterConfig.strictExcludes) =>
       ((\A f \in Batch : \A r \in AllRules : r.negate => ~Fires(f, r))
         => results = match(files, rules, globalIgnorePatterns, WithStrict(FALSE)))
  /\ NeverBlankedWhenOff

\* C25 (amended) -- with strictExcludes, when no file of the batch has a
\* filename that matches the glob of a negative rule of any group, match
\* returns the mapping it returns with strictExcludes disabled; and with
\* strictExcludes disabled every file that is not ignored and that a group's
\* rules accept is in that group's list.
ThmC25_StrictWithoutNegativeMatch ==
  /\ (Matched /\ filterConfig.strictExcludes) =>
       ((\A f \in Batch : ~MatchesNegativeGlob(f))
         => results = match(files, rules, globalIgnorePatterns, WithStrict(FALSE)))
  /\ NeverBlankedWhenOff

\* Strict excludes on, a group with a negative rule, a batch none of whose
\* filenames matches a negative glob, and a group that lists a file.
WitC25_StrictButNothingExcluded ==
  /\ Matched /\ filterConfig.strictExcludes
  /\ \E r \in AllRules : r.negate
  /\ files # <<>>
  /\ \A f \in Batch : ~MatchesNegativeGlob(f)
  /\ \E g \in Groups : results[g].files # <<>>


----------------------------------------------------------------------------
\* The negated rename case: a negated rule that targets `renamed`, whose glob
\* matches the origin but not the destination of a renamed file.
NegatedRenameCase(f, r) ==
  /\ r.negate /\ TargetsRenamed(r)
  /\ f.status = Renamed /\ f.to = f.filename /\ f.from # NoPath
  /\ GlobMatch(r.isMatch.glob, f.from) /\ ~GlobMatch(r.isMatch.glob, f.filename)

Without(rs, r) == SelectSeq(rs, LAMBDA x : x # r)

\* C26 -- in the negated rename case the rule does not fire on the file and
\* does not exclude it from its group: the group decides on the file as it
\* does without the rule, and lists it when the file is not ignored, the batch
\* is not blanked and the other rules of the group accept the file.
ThmC26_NegatedRenameDestinationOnly ==
  Matched =>
    \A g \in Groups : \A f \in Batch : \A r \in RulesOf(g) :
      NegatedRenameCase(f, r) =>
        /\ ~aPredicate(f, r)
        /\ isMatch(f, rules[g].rules, filterConfig)
             = isMatch(f, Without(rules[g].rules, r), filterConfig)
        /\ (~Ignored(f) /\ ~Blanked) =>
             (InResult(g, f) <=> isMatch(f, Without(rules[g].rules, r), filterConfig))

\* A renamed file listed by a group of a positive rule and a negated `renamed`
\* rule whose glob matches the file's origin only.
WitC26_ListedDespiteOrigin ==
  /\ Matched
  /\ \E g \in Groups : \E f \in Batch : \E r \in RulesOf(g) :
       /\ NegatedRenameCase(f, r)
       /\ \E r0 \in RulesOf(g) : ~r0.negate /\ Fires(f, r0)
       /\ InResult(g, f)


----------------------------------------------------------------------------
\* s is t with some of its elements left out.
RECURSIVE IsSubsequence(_, _)
IsSubsequence(s, t) ==
  IF s = <<>> THEN TRUE
  ELSE IF t = <<>> THEN FALSE
  ELSE IF Head(s) = Head(t) THEN IsSubsequence(Tail(s), Tail(t))
  ELSE IsSubsequence(s, Tail(t))

\* C27 -- the result of match has exactly one entry per group of the rules
\* document, under the group's name, and each group's
\* list is a subsequence of the file list: only files of the list, none more
\* often than in the list, in the original order.
ThmC27_OneListPerGroup ==
  Matched =>
    /\ Len(results) = Len(rules)
    /\ \A g \in Groups :
         /\ results[g].key = rules[g].key
         /\ IsSubsequence(results[g].files, files)

\* Two different files in the batch: one group lists only the second, another
\* group lists both.
WitC27_SecondOnlyAndBoth ==
  /\ Matched
  /\ Len(files) = 2 /\ files[1] # files[2]
  /\ \E g \in Groups : results[g].files = <<files[2]>>
  /\ \E g \in Groups : results[g].files = files


----------------------------------------------------------------------------
\* C28 -- every pattern under a `paths-ignore` key becomes a rule with
\* negate = true and no status constraint, with or without a leading "!":
\* the two spellings parse to the same rules, fire on the same files, and a
\* group given either of them lists the same files of the batch.
PathsIgnore(v) == Obj(<<Entry(PathsIgnoreKey, v)>>)
WithRules(rs, g, more) == [rs EXCEPT ![g].rules = @ \o more]

ThmC28_PathsIgnoreAlwaysNegates ==
  /\ \A glob \in Globs : \A b \in BOOLEAN :
       /\ parseFilterItemYaml(PathsIgnore(Str(b, glob)))
            = <<RuleItem(FALSE, {}, Pattern(FALSE, glob), TRUE)>>
       /\ parseFilterItemYaml(PathsIgnore(Arr(<<Str(b, glob), Str(~b, GlobLegacy)>>)))
            = <<RuleItem(FALSE, {}, Pattern(FALSE, glob), TRUE),
                RuleItem(FALSE, {}, Pattern(FALSE, GlobLegacy), TRUE)>>
  /\ Matched =>
       \A glob \in Globs :
         LET plain == parseFilterItemYaml(PathsIgnore(Str(FALSE, glob)))
             banged == parseFilterItemYaml(PathsIgnore(Str(TRUE, glob)))
         IN  /\ \A f \in Batch : aPredicate(f, plain[1]) = aPredicate(f, banged[1])
             /\ \A g \in Groups :
                  match(files, WithRules(rules, g, plain), globalIgnorePatterns, filterConfig)
                    = match(files, WithRules(rules, g, banged), globalIgnorePatterns, filterConfig)

\* A group of a positive rule and a rule parsed from `paths-ignore: '!src/**'`:
\* the file under src is left out, the other file of the batch is listed.
WitC28_BangedPathsIgnoreExcludes ==
  /\ Matched
  /\ \E g \in Groups : \E f1, f2 \in Batch :
       /\ Len(rules[g].rules) = 2
       /\ rules[g].rules[1] = RuleItem(FALSE, {}, Pattern(FALSE, GlobAll), FALSE)
       /\ <<rules[g].rules[2]>> = parseFilterItemYaml(PathsIgnore(Str(TRUE, GlobSrc)))
       /\ f1.filename = SrcA /\ ~InResult(g, f1)
       /\ InResult(g, f2)


----------------------------------------------------------------------------
\* C29 -- the strict-excludes trigger tests the filename of each remaining
\* file against the glob of every negate = true rule and nothing else: it
\* holds exactly when some remaining filename matches such a glob, and a
\* negative rule whose status set does not admit the file, so that it does not
\* fire on the file in isMatch, blanks the batch all the same. So does the
\* rule parsed from `added: '!legacy/**'` for a modified file under legacy.
Remaining == globalIgnoreFilter(files, globalIgnorePatterns)
AddedNotLegacy == parseFilterItemYaml(Obj(<<Entry(<<"added">>, Str(TRUE, GlobLegacy))>>))
ModifiedLegacy == File(LegacyA, Modified, LegacyA, NoPath)

ThmC29_TriggerByFilenameOnly ==
  /\ hasExcludedFile(<<ModifiedLegacy>>, <<[key |-> "backend", rules |-> AddedNotLegacy]>>)
  /\ ~aPredicate(ModifiedLegacy, AddedNotLegacy[1])
  /\ (Matched /\ filterConfig.strictExcludes) =>
       /\ hasExcludedFile(Remaining, rules)
            <=> \E f \in Batch : ~Ignored(f) /\ MatchesNegativeGlob(f)
       /\ \A f \in Batch : \A r \in AllRules :
            (/\ r.negate /\ ~aPredicate(f, r)
             /\ ~Ignored(f) /\ GlobMatch(r.isMatch.glob, f.filename))
              => \A g \in Groups : results[g].files = <<>>

\* A batch blanked by a negative rule that fires on none of its files: the
\* rule's status set does not admit the file whose filename its glob matches,
\* and without strict excludes a group would list a file.
WitC29_BlankedWithoutFiring ==
  /\ Matched /\ filterConfig.strictExcludes
  /\ \A f \in Batch : \A r \in AllRules : r.negate => ~aPredicate(f, r)
  /\ \E f \in Batch : \E r \in AllRules :
       /\ r.negate /\ r.hasStatus /\ f.status \notin r.status
       /\ ~Ignored(f) /\ GlobMatch(r.isMatch.glob, f.filename)
  /\ \A g \in Groups : results[g].files = <<>>
  /\ \E g \in Groups : match(files, rules, globalIgnorePatterns, WithStrict(FALSE))[g].files # <<>>


----------------------------------------------------------------------------
\* The rules documents that differ from the one of the Filter in another
\* group than g only: a group emptied, replaced, extended by one rule, or one
\* more group added after the others.
OtherGroupsChanged(g) ==
  {[rules EXCEPT ![h].rules = <<>>] : h \in Groups \ {g}}
    \cup {[rules EXCEPT ![h].rules = <<r>>] : h \in Groups \ {g}, r \in AddableRules}
    \cup {[rules EXCEPT ![h].rules = Append(@, r)] : h \in Groups \ {g}, r \in AddableRules}
    \cup {Append(rules, [key |-> "extra", rules |-> <<r>>]) : r \in AddableRules}

ListOf(rs, g) == match(files, rs, globalIgnorePatterns, filterConfig)[g].files

\* C30 (as claimed) -- groups are independent: for every batch the list of a
\* group is the same whatever the rules of the other groups are.
OrigC30_GroupsIndependent ==
  Matched =>
    \A g \in Groups : \A rs \in OtherGroupsChanged(g) : ListOf(rs, g) = results[g].files

\* C30 (amended) -- with strictExcludes disabled groups are independent: for
\* every batch the list of a group is the same whatever the rules of the
\* other groups are.
ThmC30_IndependentWithoutStrict ==
  (Matched /\ ~filterConfig.strictExcludes) =>
    \A g \in Groups : \A rs \in OtherGroupsChanged(g) : ListOf(rs, g) = results[g].files

\* Without strict excludes, one file in the lists of two groups, and another
\* file in the list of one of them only.
WitC30_FileInSeveralGroups ==
  /\ Matched /\ ~filterConfig.strictExcludes
  /\ \E g, h \in Groups : \E f1, f2 \in Batch :
       /\ g # h
       /\ InResult(g, f1) /\ InResult(h, f1)
       /\ ~InResult(g, f2) /\ InResult(h, f2)



----------------------------------------------------------------------------
(* C21: the list getChangedFilesFromApi returns *)

\* The pull request of the run, its listing, and the rows of the listing.
ThePullRequest == input.context.pull_request
ListedRows == Flat([p \in 1..Len(ThePullRequest.listFiles) |-> ThePullRequest.listFiles[p].data])
ListingSucceeded ==
  \A p \in 1..Len(ThePullRequest.listFiles) : ThePullRequest.listFiles[p].status = 200
\* The API was asked and every page arrived: getChangedFilesFromApi has returned.
ApiListed == gitCalls # <<>> /\ gitCalls[1].cmd = "listFiles" /\ ListingSucceeded
FallbackCase ==
  /\ ThePullRequest.number > 0
  /\ ThePullRequest.base # "" /\ ThePullRequest.head # ""
  /\ Len(ListedRows) < 4000
DiffRan == \E i \in 1..Len(gitCalls) : gitCalls[i].cmd = "diff"
\* files is the listing row by row, with the conversions of the claim.
ApiDerived(fs, rows) ==
  /\ Len(fs) = Len(rows)
  /\ \A i \in 1..Len(rows) :
       /\ fs[i].filename = rows[i].filename
       /\ rows[i].status = "removed" =>
            fs[i].status = Deleted /\ fs[i].from = rows[i].filename
       /\ (rows[i].status \in {Renamed, Copied} /\ rows[i].previous_filename # NoPath) =>
            /\ fs[i].status = rows[i].status
            /\ fs[i].from = rows[i].previous_filename
            /\ fs[i].to = rows[i].filename

WitC21_FallbackTaken ==
  /\ ApiListed /\ FallbackCase /\ DiffRan
  /\ phase = "detected"
  /\ files # apiFiles(ThePullRequest.listFiles)

\* The full listing of 4000 rows is returned though number and SHAs are there.
WitC21_FullListingKept ==
  /\ ApiListed
  /\ ThePullRequest.number > 0 /\ ThePullRequest.base # "" /\ ThePullRequest.head # ""
  /\ Len(files) = 4000
  /\ ~DiffRan


----------------------------------------------------------------------------
(* C22: the Files handed to Filter.match *)

\* The data-model invariant of a File.
WellFormedFile(f) ==
  IF f.status \in {Renamed, Copied}
    THEN f.to = f.filename /\ f.from # NoPath
    ELSE f.from = f.filename /\ f.to = NoPath
HandedToMatch == phase \in {"detected", "constructed", "matched"}

\* The output of the diff the run made, from the commands it issued: the last
\* command is the diff, of two refs, of HEAD and the work tree, or of the merge
\* base found by the command before it.
KnownCodes == {"A", "C", "D", "M", "R", "U"}
LastCall == gitCalls[Len(gitCalls)]
OutputOfRun ==
  LET head == IF LastCall.b = "" THEN WorkTree ELSE CommitOf(LastCall.b)
      base == IF LastCall.a = "merge-base"
                THEN MergeBaseOf(CommitOf(gitCalls[Len(gitCalls) - 1].a), head)
                ELSE CommitOf(LastCall.a)
  IN  nameStatus(base, head)
HasUnknownCode(entries) == \E i \in 1..Len(entries) : entries[i].code \notin KnownCodes
UnknownStatusThrown == phase = "failed" /\ error = UnknownStatus /\ files = <<>>

WitC22_UnknownCodeAborts == DiffRan /\ HasUnknownCode(OutputOfRun) /\ UnknownStatusThrown

\* Files of the custom input, and a copy listed by the API, handed to match.
WitC22_CustomFilesMatched == phase = "matched" /\ input.files # <<>> /\ Len(files) = 2
WitC22_CopyFromApiMatched ==
  /\ phase = "matched" /\ ApiListed /\ ~DiffRan
  /\ \E i \in 1..Len(files) : files[i].status = Copied /\ files[i].from = LegacyA

====
